---- MODULE Spec2Model ----
(***************************************************************************)
(* Revault transactions: the signable record (PSBT) of each transaction    *)
(* variant, signature insertion, the per-input satisfier and the input     *)
(* finalizer of src/src/transactions.rs.                                   *)
(*                                                                         *)
(* Vectors are TLA+ sequences (1-based); the input_index arguments and the *)
(* indexes kept in `ret` are the code's 0-based indexes.  An Option is a   *)
(* sequence of length at most one: None is << >>, Some(x) is <<x>>.        *)
(* Byte strings (raw signatures, witness elements) are sequences of        *)
(* naturals.                                                               *)
(***************************************************************************)
EXTENDS Integers, Sequences, FiniteSets, TLC

VARIABLES
    tx,      \* the transaction variant and the Psbt it wraps
    ret,     \* the last call and what it returned
    failed   \* history: some finalize call on this record returned Err

vars == <<tx, ret, failed>>

None == << >>
Some(x) == <<x>>

(***************************************************************************)
(* Bounds of the model.                                                    *)
(***************************************************************************)
\* At most this many partial signatures are held by one record.
MaxSigs == 3
\* add_signature is tried with input_index in 0..MaxInputIndex.
MaxInputIndex == 2

(***************************************************************************)
(* Keys, hashes and scripts.                                               *)
(***************************************************************************)
managers == <<"m1">>
non_managers == <<"s1">>
cosigners == <<"c1">>
feebump_xpub == "f1"

Range(s) == {s[i] : i \in 1..Len(s)}

PublicKeys == Range(managers) \cup Range(non_managers) \cup Range(cosigners)
                \cup {feebump_xpub}

\* The value used by the tests for the relative timelock of the unvault policy.
CSV_VALUE == 42

(***************************************************************************)
(* A u32 is kept as its two 16-bit halves <<high, low>>, so that values up *)
(* to u32::MAX are represented exactly.                                    *)
(***************************************************************************)
u32(n) == <<n \div 65536, n % 65536>>
U32_MAX == <<65535, 65535>>
\* a >= b on u32
u32_ge(a, b) == a[1] > b[1] \/ (a[1] = b[1] /\ a[2] >= b[2])
\* a & (1 << bit) != 0 on u32
u32_bit(a, bit) ==
    IF bit >= 16 THEN (a[1] \div (2^(bit - 16))) % 2 = 1
    ELSE (a[2] \div (2^bit)) % 2 = 1

\* u32::MAX - 2
RBF_SEQUENCE == <<U32_MAX[1], U32_MAX[2] - 2>>

\* pubkey.to_pubkeyhash(): the hash160 of the serialized key (injective here).
to_pubkeyhash(pk) == <<"hash160", pk>>

\* pk.to_public_key().to_bytes(): the serialized public key.
to_bytes(pk) ==
    CASE pk = "m1" -> <<2, 11>>
      [] pk = "s1" -> <<2, 12>>
      [] pk = "c1" -> <<2, 13>>
      [] pk = "f1" -> <<3, 14>>

(***************************************************************************)
(* Output descriptors and their scripts.  A descriptor is named by its     *)
(* kind and, for the unvault one, its CSV value; its witness script is the *)
(* descriptor itself, its script pubkey the P2WSH (or P2WPKH) of it.       *)
(***************************************************************************)
vault_descriptor == [desc |-> "vault", csv |-> u32(0)]
unvault_descriptor(csv_value) == [desc |-> "unvault", csv |-> csv_value]
cpfp_descriptor == [desc |-> "cpfp", csv |-> u32(0)]

p2wsh(witness_script) ==
    [type |-> "p2wsh", program |-> <<"sha256", witness_script.desc, witness_script.csv>>]
p2wpkh(pk) ==
    [type |-> "p2wpkh", program |-> <<to_pubkeyhash(pk)[1], to_pubkeyhash(pk)[2], u32(0)>>]
\* TxOut::default(): an empty script pubkey, neither P2WPKH nor P2WSH.
empty_script == [type |-> "empty", program |-> <<"", "", u32(0)>>]

is_v0_p2wpkh(script_pubkey) == script_pubkey.type = "p2wpkh"
is_v0_p2wsh(script_pubkey) == script_pubkey.type = "p2wsh"

\* The bytes of a witness script as pushed on the witness stack.
encode(witness_script) ==
    CASE witness_script.desc = "vault" -> <<172, 1>> \o witness_script.csv
      [] witness_script.desc = "unvault" -> <<172, 2>> \o witness_script.csv
      [] witness_script.desc = "cpfp" -> <<172, 3>> \o witness_script.csv
      [] OTHER -> <<255>>

(***************************************************************************)
(* The spending policies, as Miniscript trees.                             *)
(*   vault:   all the participants (managers and non-managers)             *)
(*   unvault: all the managers, and either all the non-managers or all the *)
(*            cosigners after the relative timelock                        *)
(*   cpfp:    one of the managers                                          *)
(***************************************************************************)
ms_multi(k, keys) == [op |-> "multi", k |-> k, keys |-> keys]
ms_pkh(pk) == [op |-> "pkh", hash |-> to_pubkeyhash(pk)]
ms_older(n) == [op |-> "older", n |-> n]
ms_and(l, r) == [op |-> "and", l |-> l, r |-> r]
ms_or(l, r) == [op |-> "or", l |-> l, r |-> r]

RECURSIVE ms_all_pkh(_)
ms_all_pkh(keys) ==
    IF Len(keys) = 1 THEN ms_pkh(keys[1])
    ELSE ms_and(ms_pkh(keys[1]), ms_all_pkh(Tail(keys)))

vault_policy == ms_multi(Len(managers \o non_managers), managers \o non_managers)

unvault_policy(csv_value) ==
    ms_and(ms_multi(Len(managers), managers),
           ms_or(ms_multi(Len(non_managers), non_managers),
                 ms_and(ms_all_pkh(cosigners), ms_older(csv_value))))

cpfp_policy == ms_multi(1, managers)

\* Miniscript::parse(script): the tree of a witness script, None if unparsable.
miniscript_parse(witness_script) ==
    CASE witness_script.desc = "vault" -> Some(vault_policy)
      [] witness_script.desc = "unvault" -> Some(unvault_policy(witness_script.csv))
      [] witness_script.desc = "cpfp" -> Some(cpfp_policy)
      [] OTHER -> None

(***************************************************************************)
(* Signatures.  A raw signature is a DER body followed by one sighash flag *)
(* byte.  The DER body is abstracted to its first byte: it parses iff it   *)
(* starts with the DER SEQUENCE tag 0x30.                                  *)
(***************************************************************************)
DER_SEQUENCE_TAG == 48

\* secp256k1::Signature::from_der(sig): Some(signature) or None on error.
from_der(bytes) ==
    IF Len(bytes) >= 1 /\ bytes[1] = DER_SEQUENCE_TAG THEN Some(bytes) ELSE None

\* Signature::serialize_der(): strict DER, the bytes it was parsed from.
serialize_der(sig) == sig

\* bitcoin::SigHashType::from_u32(n), for a byte n; a SigHashType is
\* represented by its numeric value (as_u32).
from_u32(n) ==
    LET masked == (n % 32) + (IF (n \div 128) % 2 = 1 THEN 128 ELSE 0)
    IN  IF masked \in {1, 2, 3, 129, 130, 131} THEN masked
        ELSE IF masked >= 128 THEN 129
        ELSE 1

\* rawsig.split_last(): None for an empty vector, else (last, rest).
split_last(rawsig) ==
    IF Len(rawsig) = 0 THEN None
    ELSE Some([f |-> rawsig[Len(rawsig)], s |-> SubSeq(rawsig, 1, Len(rawsig) - 1)])

(***************************************************************************)
(* RevaultInputSatisfier.                                                  *)
(***************************************************************************)
\* Mutant: the hash => key mapping is not filled.
RevaultInputSatisfier_new_nohashes(sigmap, sequence) ==
    [sequence |-> sequence,
     sigmap |-> sigmap,
     pkhashmap |-> [h \in {} |-> ""]]

\* Mutant: the hash => key mapping holds one key of the map only.
RevaultInputSatisfier_new_one_hash(sigmap, sequence) ==
    [sequence |-> sequence,
     sigmap |-> sigmap,
     pkhashmap |-> [h \in {to_pubkeyhash(pubkey) :
                            pubkey \in {pk \in DOMAIN sigmap :
                                            pk = CHOOSE first \in DOMAIN sigmap : TRUE}} |->
                        CHOOSE pubkey \in DOMAIN sigmap : to_pubkeyhash(pubkey) = h]]

RevaultInputSatisfier_new(sigmap, sequence) ==
    [sequence |-> sequence,
     sigmap |-> sigmap,
     pkhashmap |-> [h \in {to_pubkeyhash(pubkey) : pubkey \in DOMAIN sigmap} |->
                        CHOOSE pubkey \in DOMAIN sigmap : to_pubkeyhash(pubkey) = h]]

\* Mutant: the DER body of the stored signature is not parsed.
lookup_sig_unparsed(self, pk) ==
    IF pk \in DOMAIN self.sigmap
    THEN LET rawsig == self.sigmap[pk]
             split == split_last(rawsig)
         IN  IF split = None THEN None
             ELSE Some([sig |-> split[1].s, hashty |-> from_u32(split[1].f)])
    ELSE None

\* Mutant: an empty raw signature is read as a signature with the flag ALL.
lookup_sig_empty_is_all(self, pk) ==
    IF pk \in DOMAIN self.sigmap
    THEN LET rawsig == self.sigmap[pk]
             split == split_last(rawsig)
         IN  IF split = None THEN Some([sig |-> << >>, hashty |-> 1])
             ELSE LET sig == from_der(split[1].s)
                  IN  IF sig = None THEN None
                      ELSE Some([sig |-> sig[1], hashty |-> from_u32(split[1].f)])
    ELSE None

lookup_sig(self, pk) ==
    IF pk \in DOMAIN self.sigmap
    THEN LET rawsig == self.sigmap[pk]
             split == split_last(rawsig)
         IN  IF split = None THEN None
             ELSE LET sig == from_der(split[1].s)
                  IN  IF sig = None THEN None
                      ELSE Some([sig |-> sig[1], hashty |-> from_u32(split[1].f)])
    ELSE None

\* Mutant: only the keys with a parsable signature are found by their hash.
lookup_pkh_pk_signed(self, keyhash) ==
    IF keyhash \in DOMAIN self.pkhashmap /\ lookup_sig(self, self.pkhashmap[keyhash]) # None
    THEN Some(self.pkhashmap[keyhash]) ELSE None

lookup_pkh_pk(self, keyhash) ==
    IF keyhash \in DOMAIN self.pkhashmap THEN Some(self.pkhashmap[keyhash]) ELSE None

lookup_pkh_sig(self, keyhash) ==
    LET key == lookup_pkh_pk(self, keyhash)
    IN  IF key = None THEN None
        ELSE LET sig == lookup_sig(self, key[1])
             IN  IF sig = None THEN None
                 ELSE Some([key |-> key[1], sig |-> sig[1]])

\* Mutant: the sequence must be strictly above the CSV value.
\* The check of the first generation (check_after): exact equality.
check_older_exact(self, csv) ==
    [panicked |-> u32_bit(csv, 22),
     value |-> self.sequence = csv]

check_older_strict(self, csv) ==
    [panicked |-> u32_bit(csv, 22),
     value |-> u32_ge(self.sequence, csv) /\ self.sequence # csv]

\* assert!((csv & (1 << 22) == 0)); self.sequence >= csv
\* A failed assertion aborts the call (panicked); value is the answer otherwise.
check_older(self, csv) ==
    [panicked |-> u32_bit(csv, 22),
     value |-> u32_ge(self.sequence, csv)]

(***************************************************************************)
(* Miniscript::satisfy(satisfier): the generic satisfaction of a policy    *)
(* tree from the three satisfier queries.  The result is                   *)
(*   [st |-> "sat", stack |-> witness] when a witness can be assembled,    *)
(*   [st |-> "impossible"] (None) when no branch is satisfiable,           *)
(*   [st |-> "panic"] when a query aborted.                                *)
(***************************************************************************)
Satisfied(stack) == [st |-> "sat", stack |-> stack]
Impossible == [st |-> "impossible", stack |-> << >>]
Panicked == [st |-> "panic", stack |-> << >>]

\* A signature as pushed on the witness stack: DER body, then the flag byte.
sig_push(bitcoinsig) == Append(serialize_der(bitcoinsig.sig), bitcoinsig.hashty)

\* The signature pushes of the keys of `keys` that have one, in key order.
RECURSIVE multi_sigs(_, _)
multi_sigs(satisfier, keys) ==
    IF keys = << >> THEN << >>
    ELSE LET sig == lookup_sig(satisfier, Head(keys))
             rest == multi_sigs(satisfier, Tail(keys))
         IN  IF sig = None THEN rest ELSE <<sig_push(sig[1])>> \o rest

RECURSIVE satisfy(_, _)
satisfy(ms, satisfier) ==
    CASE ms.op = "multi" ->
            LET sigs == multi_sigs(satisfier, ms.keys)
            IN  IF Len(sigs) < ms.k THEN Impossible
                \* the CHECKMULTISIG dummy element, then k signatures
                ELSE Satisfied(<< << >> >> \o SubSeq(sigs, 1, ms.k))
      [] ms.op = "pkh" ->
            LET found == lookup_pkh_sig(satisfier, ms.hash)
            IN  IF found = None THEN Impossible
                ELSE Satisfied(<<sig_push(found[1].sig), to_bytes(found[1].key)>>)
      [] ms.op = "older" ->
            LET answer == check_older(satisfier, ms.n)
            IN  IF answer.panicked THEN Panicked
                ELSE IF answer.value THEN Satisfied(<< >>)
                ELSE Impossible
      [] ms.op = "and" ->
            LET l == satisfy(ms.l, satisfier)
                r == satisfy(ms.r, satisfier)
            IN  IF l.st = "panic" \/ r.st = "panic" THEN Panicked
                ELSE IF l.st = "sat" /\ r.st = "sat" THEN Satisfied(r.stack \o l.stack)
                ELSE Impossible
      [] ms.op = "or" ->
            LET l == satisfy(ms.l, satisfier)
                r == satisfy(ms.r, satisfier)
                \* the branch selector consumed by the IF of the script
                lw == l.stack \o << <<1>> >>
                rw == r.stack \o << << >> >>
            IN  IF l.st = "panic" \/ r.st = "panic" THEN Panicked
                ELSE IF l.st = "sat" /\ r.st = "sat"
                     THEN (IF Len(rw) < Len(lw) THEN Satisfied(rw) ELSE Satisfied(lw))
                ELSE IF l.st = "sat" THEN Satisfied(lw)
                ELSE IF r.st = "sat" THEN Satisfied(rw)
                ELSE Impossible

(***************************************************************************)
(* Typed previous outputs and inputs (the txouts and txins modules).       *)
(***************************************************************************)
TxOut(value, script_pubkey) == [value |-> value, script_pubkey |-> script_pubkey]

VaultTxOut_new(value, descriptor) ==
    [kind |-> "VaultTxOut", txout |-> TxOut(value, p2wsh(descriptor)),
     witness_script |-> Some(descriptor)]
UnvaultTxOut_new(value, descriptor) ==
    [kind |-> "UnvaultTxOut", txout |-> TxOut(value, p2wsh(descriptor)),
     witness_script |-> Some(descriptor)]
CpfpTxOut_new(value, descriptor) ==
    [kind |-> "CpfpTxOut", txout |-> TxOut(value, p2wsh(descriptor)),
     witness_script |-> Some(descriptor)]
FeeBumpTxOut_new(txout) ==
    [kind |-> "FeeBumpTxOut", txout |-> txout, witness_script |-> None]
EmergencyTxOut_new(txout) ==
    [kind |-> "EmergencyTxOut", txout |-> txout, witness_script |-> None]
ExternalTxOut_new(txout) ==
    [kind |-> "ExternalTxOut", txout |-> txout, witness_script |-> None]

get_txout(revault_txout) == revault_txout.txout
into_witness_script(revault_txout) == revault_txout.witness_script

\* VaultTxIn::new / UnvaultTxIn::new / FeeBumpTxIn::new
RevaultTxIn_new(outpoint, prev_txout, sequence) ==
    [outpoint |-> outpoint, prev_txout |-> prev_txout, sequence |-> sequence]

as_unsigned_txin(revault_txin) ==
    [previous_output |-> revault_txin.outpoint, sequence |-> revault_txin.sequence]
into_txout(revault_txin) == revault_txin.prev_txout

OutPoint(txid, vout) == [txid |-> txid, vout |-> vout]

(***************************************************************************)
(* Construction of the Psbt of a transaction variant.                      *)
(***************************************************************************)
NoSigs == [pubkey \in {} |-> << >>]

\* create_tx leaving the lock time at 0, as the first routines did.
create_tx_no_lock_time(revault_txins, txouts, lock_time) ==
    [global |->
        [unsigned_tx |->
            [version |-> 2,
             lock_time |-> 0,
             input |-> [i \in 1..Len(revault_txins) |-> as_unsigned_txin(revault_txins[i])],
             output |-> [j \in 1..Len(txouts) |-> get_txout(txouts[j])]]],
     inputs |-> [i \in 1..Len(revault_txins) |->
        [witness_script |-> into_witness_script(into_txout(revault_txins[i])),
         witness_utxo |-> Some(get_txout(into_txout(revault_txins[i]))),
         partial_sigs |-> NoSigs,
         final_script_witness |-> None]],
     outputs |-> [j \in 1..Len(txouts) |->
        [witness_script |-> into_witness_script(txouts[j])]]]

\* create_tx listing the inputs of the skeleton last-to-first.
create_tx_reversed(revault_txins, txouts, lock_time) ==
    [global |->
        [unsigned_tx |->
            [version |-> 2,
             lock_time |-> lock_time,
             input |-> [i \in 1..Len(revault_txins) |->
                as_unsigned_txin(revault_txins[Len(revault_txins) + 1 - i])],
             output |-> [j \in 1..Len(txouts) |-> get_txout(txouts[j])]]],
     inputs |-> [i \in 1..Len(revault_txins) |->
        [witness_script |-> into_witness_script(into_txout(revault_txins[i])),
         witness_utxo |-> Some(get_txout(into_txout(revault_txins[i]))),
         partial_sigs |-> NoSigs,
         final_script_witness |-> None]],
     outputs |-> [j \in 1..Len(txouts) |->
        [witness_script |-> into_witness_script(txouts[j])]]]

create_tx(revault_txins, txouts, lock_time) ==
    [global |->
        [unsigned_tx |->
            [version |-> 2,
             lock_time |-> lock_time,
             input |-> [i \in 1..Len(revault_txins) |-> as_unsigned_txin(revault_txins[i])],
             output |-> [j \in 1..Len(txouts) |-> get_txout(txouts[j])]]],
     inputs |-> [i \in 1..Len(revault_txins) |->
        [witness_script |-> into_witness_script(into_txout(revault_txins[i])),
         witness_utxo |-> Some(get_txout(into_txout(revault_txins[i]))),
         partial_sigs |-> NoSigs,
         final_script_witness |-> None]],
     outputs |-> [j \in 1..Len(txouts) |->
        [witness_script |-> into_witness_script(txouts[j])]]]

UnvaultTransaction_new(vault_input, unvault_txout, cpfp_txout, lock_time) ==
    [variant |-> "UnvaultTransaction",
     psbt |-> create_tx(<<vault_input>>, <<unvault_txout, cpfp_txout>>, lock_time)]

CancelTransaction_new(unvault_input, feebump_input, vault_txout, lock_time) ==
    [variant |-> "CancelTransaction",
     psbt |-> IF feebump_input # None
              THEN create_tx(<<unvault_input, feebump_input[1]>>, <<vault_txout>>, lock_time)
              ELSE create_tx(<<unvault_input>>, <<vault_txout>>, lock_time)]

EmergencyTransaction_new(vault_input, feebump_input, emer_txout, lock_time) ==
    [variant |-> "EmergencyTransaction",
     psbt |-> IF feebump_input # None
              THEN create_tx(<<vault_input, feebump_input[1]>>, <<emer_txout>>, lock_time)
              ELSE create_tx(<<vault_input>>, <<emer_txout>>, lock_time)]

UnvaultEmergencyTransaction_new(unvault_input, feebump_input, emer_txout, lock_time) ==
    [variant |-> "UnvaultEmergencyTransaction",
     psbt |-> IF feebump_input # None
              THEN create_tx(<<unvault_input, feebump_input[1]>>, <<emer_txout>>, lock_time)
              ELSE create_tx(<<unvault_input>>, <<emer_txout>>, lock_time)]

\* spend_txouts are SpendTxOut::Destination(txo) or SpendTxOut::Change(txo);
\* both arms take the wrapped txo's txout and witness script.
SpendTransaction_new(unvault_inputs, spend_txouts, lock_time) ==
    [variant |-> "SpendTransaction",
     psbt |-> create_tx(unvault_inputs, spend_txouts, lock_time)]

(***************************************************************************)
(* RevaultTransaction::add_signature                                       *)
(* The result is the record after the call, the error ("Ok" for none) and  *)
(* the returned Option (the signature previously stored under the key).    *)
(***************************************************************************)
insert(map, key, value) ==
    [k \in DOMAIN map \cup {key} |-> IF k = key THEN value ELSE map[k]]

\* Mutant: an index past the end makes room for a new per-input record.
add_signature_grows(self, input_index, pubkey, rawsig) ==
    IF input_index < Len(self.psbt.inputs)
    THEN LET psbtin == self.psbt.inputs[input_index + 1]
         IN  [tx |-> [self EXCEPT !.psbt.inputs[input_index + 1].partial_sigs =
                                        insert(psbtin.partial_sigs, pubkey, rawsig)],
              err |-> "Ok",
              value |-> IF pubkey \in DOMAIN psbtin.partial_sigs
                        THEN Some(psbtin.partial_sigs[pubkey]) ELSE None]
    ELSE [tx |-> [self EXCEPT !.psbt.inputs =
                        Append(@, [witness_script |-> None, witness_utxo |-> None,
                                   partial_sigs |-> insert(NoSigs, pubkey, rawsig),
                                   final_script_witness |-> None])],
          err |-> "Ok", value |-> None]

\* Mutant: an index past the end is clamped to the last input.
add_signature_clamped(self, input_index, pubkey, rawsig) ==
    LET index == IF input_index < Len(self.psbt.inputs) THEN input_index + 1
                 ELSE Len(self.psbt.inputs)
        psbtin == self.psbt.inputs[index]
    IN  [tx |-> [self EXCEPT !.psbt.inputs[index].partial_sigs =
                                   insert(psbtin.partial_sigs, pubkey, rawsig)],
         err |-> "Ok",
         value |-> IF pubkey \in DOMAIN psbtin.partial_sigs
                   THEN Some(psbtin.partial_sigs[pubkey]) ELSE None]

\* Mutant: the signature just stored is returned, not the previous one.
add_signature_returns_new(self, input_index, pubkey, rawsig) ==
    IF input_index < Len(self.psbt.inputs)
    THEN LET psbtin == self.psbt.inputs[input_index + 1]
         IN  [tx |-> [self EXCEPT !.psbt.inputs[input_index + 1].partial_sigs =
                                        insert(psbtin.partial_sigs, pubkey, rawsig)],
              err |-> "Ok",
              value |-> Some(rawsig)]
    ELSE [tx |-> self, err |-> "InputOutOfBonds", value |-> None]

\* Mutant: the signature map of the input keeps the last signature only.
add_signature_keeps_last(self, input_index, pubkey, rawsig) ==
    IF input_index < Len(self.psbt.inputs)
    THEN LET psbtin == self.psbt.inputs[input_index + 1]
         IN  [tx |-> [self EXCEPT !.psbt.inputs[input_index + 1].partial_sigs =
                                        insert(<< >>, pubkey, rawsig)],
              err |-> "Ok",
              value |-> IF pubkey \in DOMAIN psbtin.partial_sigs
                        THEN Some(psbtin.partial_sigs[pubkey]) ELSE None]
    ELSE [tx |-> self, err |-> "InputOutOfBonds", value |-> None]

\* Mutant: a new signature drops the final witness of the input.
add_signature_resets_witness(self, input_index, pubkey, rawsig) ==
    IF input_index < Len(self.psbt.inputs)
    THEN LET psbtin == self.psbt.inputs[input_index + 1]
         IN  [tx |-> [self EXCEPT !.psbt.inputs[input_index + 1] =
                        [psbtin EXCEPT !.partial_sigs = insert(psbtin.partial_sigs,
                                                               pubkey, rawsig),
                                       !.final_script_witness = None]],
              err |-> "Ok",
              value |-> IF pubkey \in DOMAIN psbtin.partial_sigs
                        THEN Some(psbtin.partial_sigs[pubkey]) ELSE None]
    ELSE [tx |-> self, err |-> "InputOutOfBonds", value |-> None]

add_signature(self, input_index, pubkey, rawsig) ==
    IF input_index < Len(self.psbt.inputs)
    THEN LET psbtin == self.psbt.inputs[input_index + 1]
         IN  [tx |-> [self EXCEPT !.psbt.inputs[input_index + 1].partial_sigs =
                                        insert(psbtin.partial_sigs, pubkey, rawsig)],
              err |-> "Ok",
              value |-> IF pubkey \in DOMAIN psbtin.partial_sigs
                        THEN Some(psbtin.partial_sigs[pubkey]) ELSE None]
    ELSE [tx |-> self, err |-> "InputOutOfBonds", value |-> None]

(***************************************************************************)
(* RevaultTransaction::finalize                                            *)
(***************************************************************************)
FinalizedInput(witness) == [err |-> "Ok", witness |-> witness]
InputError(err) == [err |-> err, witness |-> << >>]

\* Mutant: the public key is pushed before the signature.
finalize_p2wpkh_swapped(prev_txo, input_satisfier) ==
    LET hash == <<prev_txo.script_pubkey.program[1], prev_txo.script_pubkey.program[2]>>
        pk == lookup_pkh_pk(input_satisfier, hash)
    IN  IF pk = None THEN InputError("CouldNotFindPubkey")
        ELSE LET sig == lookup_sig(input_satisfier, pk[1])
             IN  IF sig = None THEN InputError("NoSignatureForPubkey")
                 ELSE LET sig_der == Append(serialize_der(sig[1].sig), sig[1].hashty % 256)
                      IN  FinalizedInput(<<to_bytes(pk[1]), sig_der>>)

\* Mutant: an unknown key hash is reported as a missing signature.
finalize_p2wpkh_one_error(prev_txo, input_satisfier) ==
    LET hash == <<prev_txo.script_pubkey.program[1], prev_txo.script_pubkey.program[2]>>
        found == lookup_pkh_sig(input_satisfier, hash)
    IN  IF found = None THEN InputError("NoSignatureForPubkey")
        ELSE LET sig_der == Append(serialize_der(found[1].sig.sig),
                                   found[1].sig.hashty % 256)
             IN  FinalizedInput(<<sig_der, to_bytes(found[1].key)>>)

\* The P2WPKH branch: the public key hash is marshalled out of the script
\* pubkey, the key and its signature come from the satisfier.
finalize_p2wpkh(prev_txo, input_satisfier) ==
    LET hash == <<prev_txo.script_pubkey.program[1], prev_txo.script_pubkey.program[2]>>
        pk == lookup_pkh_pk(input_satisfier, hash)
    IN  IF pk = None THEN InputError("CouldNotFindPubkey")
        ELSE LET sig == lookup_sig(input_satisfier, pk[1])
             IN  IF sig = None THEN InputError("NoSignatureForPubkey")
                 ELSE LET sig_der == Append(serialize_der(sig[1].sig), sig[1].hashty % 256)
                      IN  FinalizedInput(<<sig_der, to_bytes(pk[1])>>)

\* Mutant: the witness script is pushed before the satisfaction.
finalize_p2wsh_script_first(psbtin, input_satisfier) ==
    IF psbtin.witness_script = None THEN InputError("MissingWitnessScript")
    ELSE LET prev_script == miniscript_parse(psbtin.witness_script[1])
         IN  IF prev_script = None THEN InputError("CouldNotParseWitnessScript")
             ELSE LET witness == satisfy(prev_script[1], input_satisfier)
                  IN  IF witness.st = "sat"
                      THEN FinalizedInput(<<encode(psbtin.witness_script[1])>>
                                            \o witness.stack)
                      ELSE IF witness.st = "panic" THEN InputError("Panic")
                      ELSE InputError("InputSatisfactionError")

\* Mutant: a signature map holding more signatures than the witness uses
\* is refused.
finalize_p2wsh_no_spare(psbtin, input_satisfier) ==
    IF psbtin.witness_script = None THEN InputError("MissingWitnessScript")
    ELSE LET prev_script == miniscript_parse(psbtin.witness_script[1])
         IN  IF prev_script = None THEN InputError("CouldNotParseWitnessScript")
             ELSE LET witness == satisfy(prev_script[1], input_satisfier)
                      pushed == {e \in 1..Len(witness.stack) :
                                    /\ Len(witness.stack[e]) >= 2
                                    /\ witness.stack[e][1] = DER_SEQUENCE_TAG}
                  IN  IF witness.st = "panic" THEN InputError("Panic")
                      ELSE IF witness.st = "sat"
                              /\ Cardinality(DOMAIN psbtin.partial_sigs)
                                    <= Cardinality(pushed)
                      THEN FinalizedInput(Append(witness.stack,
                                                 encode(psbtin.witness_script[1])))
                      ELSE InputError("InputSatisfactionError")

\* The P2WSH branch: the Miniscript is parsed out of the witness script and
\* satisfied, then the witness script is pushed.
finalize_p2wsh(psbtin, input_satisfier) ==
    IF psbtin.witness_script = None THEN InputError("MissingWitnessScript")
    ELSE LET prev_script == miniscript_parse(psbtin.witness_script[1])
         IN  IF prev_script = None THEN InputError("CouldNotParseWitnessScript")
             ELSE LET witness == satisfy(prev_script[1], input_satisfier)
                  IN  IF witness.st = "sat"
                      THEN FinalizedInput(Append(witness.stack,
                                                 encode(psbtin.witness_script[1])))
                      ELSE IF witness.st = "panic" THEN InputError("Panic")
                      ELSE InputError("InputSatisfactionError")

\* Mutant: an input that already has a final witness is refused.
finalize_input_once(psbtin, txin) ==
    IF psbtin.final_script_witness # None THEN InputError("AlreadyFinalized")
    ELSE IF psbtin.witness_utxo = None THEN InputError("MissingWitnessUtxo")
    ELSE
    LET prev_txo == psbtin.witness_utxo[1]
        input_satisfier == RevaultInputSatisfier_new(psbtin.partial_sigs, txin.sequence)
    IN  IF is_v0_p2wpkh(prev_txo.script_pubkey)
        THEN finalize_p2wpkh(prev_txo, input_satisfier)
        ELSE IF is_v0_p2wsh(prev_txo.script_pubkey)
        THEN finalize_p2wsh(psbtin, input_satisfier)
        ELSE InputError("InvalidPrevTxoutType")

\* Mutant: the witness script is required before the script type is looked at.
finalize_input_needs_script(psbtin, txin) ==
    IF psbtin.witness_utxo = None THEN InputError("MissingWitnessUtxo")
    ELSE IF psbtin.witness_script = None THEN InputError("MissingWitnessScript")
    ELSE
    LET prev_txo == psbtin.witness_utxo[1]
        input_satisfier == RevaultInputSatisfier_new(psbtin.partial_sigs, txin.sequence)
    IN  IF is_v0_p2wpkh(prev_txo.script_pubkey)
        THEN finalize_p2wpkh(prev_txo, input_satisfier)
        ELSE IF is_v0_p2wsh(prev_txo.script_pubkey)
        THEN finalize_p2wsh(psbtin, input_satisfier)
        ELSE InputError("InvalidPrevTxoutType")

\* The body of the loop of finalize for one (psbtin, txin) pair: the error
\* it returns with, or the witness it stores in final_script_witness.
finalize_input(psbtin, txin) ==
    IF psbtin.witness_utxo = None THEN InputError("MissingWitnessUtxo")
    ELSE
    LET prev_txo == psbtin.witness_utxo[1]
        input_satisfier == RevaultInputSatisfier_new(psbtin.partial_sigs, txin.sequence)
    IN  IF is_v0_p2wpkh(prev_txo.script_pubkey)
        THEN finalize_p2wpkh(prev_txo, input_satisfier)
        ELSE IF is_v0_p2wsh(prev_txo.script_pubkey)
        THEN finalize_p2wsh(psbtin, input_satisfier)
        ELSE InputError("InvalidPrevTxoutType")

\* Mutant: the loop goes on after a failing input and reports the first
\* error at the end.
RECURSIVE finalize_loop_continues(_, _, _)
finalize_loop_continues(psbt_inputs, tx_inputs, i) ==
    IF i > Len(psbt_inputs) \/ i > Len(tx_inputs)
    THEN [inputs |-> psbt_inputs, err |-> "Ok", idx |-> None]
    ELSE LET done == finalize_input(psbt_inputs[i], tx_inputs[i])
             rest == finalize_loop_continues(
                        IF done.err # "Ok" THEN psbt_inputs
                        ELSE [psbt_inputs EXCEPT
                                ![i].final_script_witness = Some(done.witness)],
                        tx_inputs, i + 1)
         IN  IF done.err # "Ok"
             THEN [inputs |-> rest.inputs, err |-> done.err, idx |-> Some(i - 1)]
             ELSE rest

\* for (psbtin, txin) in psbt_inputs.iter_mut().zip(tx_inputs.iter()), from
\* the i-th pair on: each witness is written as soon as its input is done.
RECURSIVE finalize_loop(_, _, _)
finalize_loop(psbt_inputs, tx_inputs, i) ==
    IF i > Len(psbt_inputs) \/ i > Len(tx_inputs)
    THEN [inputs |-> psbt_inputs, err |-> "Ok", idx |-> None]
    ELSE LET done == finalize_input(psbt_inputs[i], tx_inputs[i])
         IN  IF done.err # "Ok"
             THEN [inputs |-> psbt_inputs, err |-> done.err, idx |-> Some(i - 1)]
             ELSE finalize_loop(
                    [psbt_inputs EXCEPT ![i].final_script_witness = Some(done.witness)],
                    tx_inputs, i + 1)

\* Mutant: a successful finalize also marks every input of the skeleton final.
finalize_final_sequence(self) ==
    LET psbt_inputs == self.psbt.inputs
        tx_inputs == self.psbt.global.unsigned_tx.input
    IN  IF Len(psbt_inputs) # Len(tx_inputs)
        THEN [tx |-> self, err |-> "NumberOfInputsMismatch", idx |-> None]
        ELSE LET done == finalize_loop(psbt_inputs, tx_inputs, 1)
             IN  [tx |-> [self EXCEPT
                            !.psbt.inputs = done.inputs,
                            !.psbt.global.unsigned_tx.input =
                                IF done.err = "Ok"
                                THEN [i \in 1..Len(tx_inputs) |->
                                        [tx_inputs[i] EXCEPT !.sequence = U32_MAX]]
                                ELSE @],
                  err |-> done.err, idx |-> done.idx]

\* Mutant: the inputs are zipped without the check of their number.
finalize_unchecked_count(self) ==
    LET psbt_inputs == self.psbt.inputs
        tx_inputs == self.psbt.global.unsigned_tx.input
        done == finalize_loop(psbt_inputs, tx_inputs, 1)
    IN  [tx |-> [self EXCEPT !.psbt.inputs = done.inputs],
         err |-> done.err, idx |-> done.idx]

\* Mutant: a successful finalize consumes the partial signatures.
finalize_consumes_signatures(self) ==
    LET psbt_inputs == self.psbt.inputs
        tx_inputs == self.psbt.global.unsigned_tx.input
    IN  IF Len(psbt_inputs) # Len(tx_inputs)
        THEN [tx |-> self, err |-> "NumberOfInputsMismatch", idx |-> None]
        ELSE LET done == finalize_loop(psbt_inputs, tx_inputs, 1)
             IN  [tx |-> [self EXCEPT !.psbt.inputs =
                            IF done.err = "Ok"
                            THEN [i \in 1..Len(done.inputs) |->
                                    [done.inputs[i] EXCEPT !.partial_sigs = NoSigs]]
                            ELSE done.inputs],
                  err |-> done.err, idx |-> done.idx]

finalize(self) ==
    LET psbt_inputs == self.psbt.inputs
        tx_inputs == self.psbt.global.unsigned_tx.input
    IN  IF Len(psbt_inputs) # Len(tx_inputs)
        THEN [tx |-> self, err |-> "NumberOfInputsMismatch", idx |-> None]
        ELSE LET done == finalize_loop(psbt_inputs, tx_inputs, 1)
             IN  [tx |-> [self EXCEPT !.psbt.inputs = done.inputs],
                  err |-> done.err, idx |-> done.idx]

(***************************************************************************)
(* The records under study: the transactions of the vault -> unvault ->    *)
(* cancel / emergency / spend chain, as the callers build them.            *)
(***************************************************************************)
vault_txo == VaultTxOut_new(360, vault_descriptor)
feebump_txo == FeeBumpTxOut_new(TxOut(56730, p2wpkh(feebump_xpub)))
unvault_txo == UnvaultTxOut_new(7000, unvault_descriptor(u32(CSV_VALUE)))
cpfp_txo == CpfpTxOut_new(330, cpfp_descriptor)
emer_txo == EmergencyTxOut_new(TxOut(450, empty_script))
revault_txo == VaultTxOut_new(6700, vault_descriptor)
spend_txo == ExternalTxOut_new(TxOut(1, empty_script))

vault_txin(sequence) == RevaultTxIn_new(OutPoint("vault_tx", 0), vault_txo, sequence)
unvault_txin(sequence) == RevaultTxIn_new(OutPoint("unvault_tx", 0), unvault_txo, sequence)
feebump_txin(sequence) == RevaultTxIn_new(OutPoint("feebump_tx", 0), feebump_txo, sequence)

\* Sequences the callers give to the input spending the unvault output.
UnvaultSequences == {u32(CSV_VALUE - 1), u32(CSV_VALUE), u32(CSV_VALUE + 1), RBF_SEQUENCE}

\* The revaulting transactions with their fee-bumping input, as in the tests.
FeeBumpedTransactions ==
    {EmergencyTransaction_new(vault_txin(RBF_SEQUENCE),
                              Some(feebump_txin(RBF_SEQUENCE)), emer_txo, 0),
     CancelTransaction_new(unvault_txin(RBF_SEQUENCE),
                           Some(feebump_txin(RBF_SEQUENCE)), revault_txo, 0),
     UnvaultEmergencyTransaction_new(unvault_txin(RBF_SEQUENCE),
                                     Some(feebump_txin(RBF_SEQUENCE)), emer_txo, 0)}

\* The transactions of one input: the revaulting ones without fee-bumping
\* input, the unvault transaction and the spend transaction.
SingleInputTransactions ==
    {EmergencyTransaction_new(vault_txin(RBF_SEQUENCE), None, emer_txo, 0),
     UnvaultEmergencyTransaction_new(unvault_txin(RBF_SEQUENCE), None, emer_txo, 0),
     UnvaultTransaction_new(vault_txin(U32_MAX), unvault_txo, cpfp_txo, 0)}
    \cup
    {CancelTransaction_new(unvault_txin(sequence), None, revault_txo, 0) :
        sequence \in {u32(CSV_VALUE), RBF_SEQUENCE}}
    \cup
    {SpendTransaction_new(<<unvault_txin(sequence)>>, <<spend_txo>>, 0) :
        sequence \in UnvaultSequences}

\* Raw signatures given to add_signature: one that parses (flag
\* ALL|ANYONECANPAY) and one whose DER body does not.
RawSigs == { <<DER_SEQUENCE_TAG, 129>>, <<49, 1>> }

\* For the key-hash path: parsable signatures with a standard flag byte
\* (ALL|ANYONECANPAY) and a non-standard one (0), and an unparsable one.
KeyHashRawSigs == { <<DER_SEQUENCE_TAG, 129>>, <<DER_SEQUENCE_TAG, 0>>, <<49, 1>> }

(***************************************************************************)
(* The state machine: a record is built, then add_signature and finalize   *)
(* are called on it in any order.                                          *)
(***************************************************************************)
SigCount(self) ==
    Cardinality({ik \in (1..Len(self.psbt.inputs)) \X PublicKeys :
                    ik[2] \in DOMAIN self.psbt.inputs[ik[1]].partial_sigs})

InitWith(transactions) ==
    /\ tx \in transactions
    /\ ret = [op |-> "new", err |-> "Ok", idx |-> None, value |-> None]
    /\ failed = FALSE

Init == InitWith(FeeBumpedTransactions \cup SingleInputTransactions)

AddSignature(input_index, pubkey, rawsig) ==
    LET done == add_signature(tx, input_index, pubkey, rawsig)
    IN  /\ SigCount(done.tx) <= MaxSigs
        /\ tx' = done.tx
        /\ ret' = [op |-> "add_signature", err |-> done.err, idx |-> None,
                   value |-> done.value]
        /\ UNCHANGED failed

Finalize ==
    LET done == finalize(tx)
    IN  /\ tx' = done.tx
        /\ ret' = [op |-> "finalize", err |-> done.err, idx |-> done.idx, value |-> None]
        /\ failed' = (failed \/ done.err # "Ok")

AddAnySignature(rawsigs) ==
    \E input_index \in 0..MaxInputIndex, pubkey \in PublicKeys, rawsig \in rawsigs :
        AddSignature(input_index, pubkey, rawsig)

Next ==
    \/ AddAnySignature(RawSigs)
    \/ Finalize

Spec == Init /\ [][Next]_vars

\* Signature insertion, on a record of two inputs and on one of one input.
InitAddSignature ==
    InitWith({CancelTransaction_new(unvault_txin(RBF_SEQUENCE),
                                    Some(feebump_txin(RBF_SEQUENCE)), revault_txo, 0),
              UnvaultTransaction_new(vault_txin(U32_MAX), unvault_txo, cpfp_txo, 0)})

SpecAddSignature == InitAddSignature /\ [][Next]_vars

\* The cancel transaction with its fee-bumping input, signed with raw
\* signatures of several flag bytes.
InitKeyHash ==
    InitWith({CancelTransaction_new(unvault_txin(RBF_SEQUENCE),
                                    Some(feebump_txin(RBF_SEQUENCE)), revault_txo, 0)})

NextKeyHash ==
    \/ AddAnySignature(KeyHashRawSigs)
    \/ Finalize

SpecKeyHash == InitKeyHash /\ [][NextKeyHash]_vars

(***************************************************************************)
(* Vocabulary of the properties, stated on the record alone.               *)
(***************************************************************************)
PsbtInputs == tx.psbt.inputs
InputIndexes == 1..Len(PsbtInputs)
Sequence(i) == tx.psbt.global.unsigned_tx.input[i].sequence
ScriptPubkey(i) == PsbtInputs[i].witness_utxo[1].script_pubkey
Participants == Range(managers) \cup Range(non_managers)

\* The raw signature is a DER signature followed by a flag byte.
Parsable(rawsig) == Len(rawsig) >= 2 /\ rawsig[1] = DER_SEQUENCE_TAG

\* The keys holding a parsable signature on input i.
SignedKeys(i) ==
    {pk \in DOMAIN PsbtInputs[i].partial_sigs : Parsable(PsbtInputs[i].partial_sigs[pk])}

\* a < b on the two halves of a u32.
Below(a, b) == a[1] < b[1] \/ (a[1] = b[1] /\ a[2] < b[2])

\* Input i is a key-hash input whose owning key holds a parsable signature.
KeyHashSigned(i) ==
    \E pk \in SignedKeys(i) : ScriptPubkey(i) = p2wpkh(pk)

\* The signed keys of script-hash input i, with its sequence, satisfy a
\* spending branch of its policy.
BranchSatisfied(i) ==
    /\ PsbtInputs[i].witness_script # None
    /\ LET ws == PsbtInputs[i].witness_script[1]
       IN  \/ /\ ws.desc = "vault"
              /\ Participants \subseteq SignedKeys(i)
           \/ /\ ws.desc = "unvault"
              /\ Participants \subseteq SignedKeys(i)
           \/ /\ ws.desc = "unvault"
              /\ Range(managers) \cup Range(cosigners) \subseteq SignedKeys(i)
              /\ ~Below(Sequence(i), ws.csv)

InputSatisfiable(i) ==
    \/ ScriptPubkey(i).type = "p2wpkh" /\ KeyHashSigned(i)
    \/ ScriptPubkey(i).type = "p2wsh" /\ BranchSatisfied(i)

FinalizeReturned == ret.op = "finalize"
FinalizeOk == ret.op = "finalize" /\ ret.err = "Ok"
FinalizeErr == ret.op = "finalize" /\ ret.err # "Ok"

(***************************************************************************)
(* C1: finalize is all-or-nothing: when it returns an error, the record is *)
(* as it was before the call (no input's final witness was written).       *)
(* The loop of finalize writes each witness as it goes, so this is         *)
(* violated when an input fails after another one was finalized.           *)
(***************************************************************************)
C1_FinalizeAllOrNothing ==
    [][(ret'.op = "finalize" /\ ret'.err # "Ok") => tx' = tx]_vars

(***************************************************************************)
(* C2: an incomplete signature set never passes: whenever finalize returns *)
(* Ok, every key-hash input holds a parsable signature under the key of    *)
(* its script, and the parsably signed keys of every script-hash input,    *)
(* with the timelock check on its sequence, satisfy a branch of its        *)
(* policy.                                                                 *)
(***************************************************************************)
C2_NoIncompleteSetPasses ==
    FinalizeOk => \A i \in InputIndexes : InputSatisfiable(i)

\* finalize returned Ok on a record with a script-hash and a key-hash input.
C2_Witness ==
    /\ FinalizeOk
    /\ Len(PsbtInputs) = 2
    /\ BranchSatisfied(1)
    /\ KeyHashSigned(2)

(***************************************************************************)
(* C3: a Cancel, Emergency or Unvault-Emergency transaction whose primary  *)
(* input holds (parsable) signatures of all the participants and whose     *)
(* fee-bump input holds one of the fee-bump key finalizes successfully;    *)
(* and after any successful finalize every input has a final witness.      *)
(***************************************************************************)
RevaultingVariants ==
    {"CancelTransaction", "EmergencyTransaction", "UnvaultEmergencyTransaction"}

FullySignedRevaulting ==
    /\ tx.variant \in RevaultingVariants
    /\ Len(PsbtInputs) = 2
    /\ Participants \subseteq SignedKeys(1)
    /\ feebump_xpub \in SignedKeys(2)

C3_FullySignedRevaultingFinalizes ==
    /\ (FinalizeReturned /\ FullySignedRevaulting) => ret.err = "Ok"
    /\ FinalizeOk => \A i \in InputIndexes : PsbtInputs[i].final_script_witness # None

\* finalize returned Ok on a fully signed emergency transaction.
C3_Witness ==
    /\ FinalizeOk
    /\ FullySignedRevaulting
    /\ tx.variant = "EmergencyTransaction"
    /\ \A i \in InputIndexes : PsbtInputs[i].final_script_witness # None

(***************************************************************************)
(* C4: timelock gating.  On a Spend transaction whose unvault input is     *)
(* signed by the managers and the cosigners (and not by all the            *)
(* non-managers), finalize fails with the input satisfaction error when    *)
(* the sequence of the input is below the CSV value of the policy, and     *)
(* succeeds when the sequence is exactly that value.                       *)
(***************************************************************************)
RequiredCsv(i) == PsbtInputs[i].witness_script[1].csv

ManagersAndCosignersSigned ==
    /\ tx.variant = "SpendTransaction"
    /\ Range(managers) \cup Range(cosigners) \subseteq SignedKeys(1)
    /\ ~(Range(non_managers) \subseteq SignedKeys(1))

C5_FailedFinalizeNotSticky ==
    [][/\ FinalizeErr =>
            \A input_index \in 0..MaxInputIndex, pubkey \in PublicKeys, rawsig \in RawSigs :
                (AddSignature(input_index, pubkey, rawsig)
                    /\ input_index < Len(PsbtInputs)) =>
                        /\ ret'.err = "Ok"
                        /\ tx'.psbt.inputs[input_index + 1].partial_sigs[pubkey] = rawsig
       /\ (failed /\ ret'.op = "finalize" /\ \A i \in InputIndexes : InputSatisfiable(i)) =>
                ret'.err = "Ok"
    ]_vars

\* finalize succeeded on a record on which an earlier finalize had failed.
C5_Witness ==
    /\ failed
    /\ FinalizeOk
    /\ \A i \in InputIndexes : InputSatisfiable(i)

(***************************************************************************)
(* C6: add_signature with an input_index that is not below the number of   *)
(* inputs returns the out-of-bounds error and leaves the record (every     *)
(* signature map included) unchanged.                                      *)
(***************************************************************************)
C6_OutOfBoundsRejected ==
    [][\A input_index \in 0..MaxInputIndex, pubkey \in PublicKeys, rawsig \in RawSigs :
          (AddSignature(input_index, pubkey, rawsig)
              /\ input_index >= Len(PsbtInputs)) =>
                /\ ret'.err = "InputOutOfBonds"
                /\ ret'.value = None
                /\ tx' = tx
    ]_vars

\* add_signature returned the out-of-bounds error on a record holding
\* signatures.
C6_Witness ==
    /\ ret.op = "add_signature"
    /\ ret.err = "InputOutOfBonds"
    /\ SigCount(tx) > 0

(***************************************************************************)
(* C7: for every in-range index, key and raw bytes (parsable or not),      *)
(* add_signature succeeds and returns the signature previously stored      *)
(* under the key on that input (None if there was none); afterwards the    *)
(* key has exactly one entry, the value just written, and the other keys   *)
(* are as before.  Inserting the same (key, signature) again returns that  *)
(* signature and leaves the map as it was.                                 *)
(***************************************************************************)
C7_AddSignatureReturnsPrevious ==
    [][\A input_index \in 0..MaxInputIndex, pubkey \in PublicKeys, rawsig \in RawSigs :
          (AddSignature(input_index, pubkey, rawsig)
              /\ input_index < Len(PsbtInputs)) =>
                LET old == PsbtInputs[input_index + 1].partial_sigs
                    new == tx'.psbt.inputs[input_index + 1].partial_sigs
                IN  /\ ret'.err = "Ok"
                    /\ ret'.value = (IF pubkey \in DOMAIN old THEN Some(old[pubkey])
                                     ELSE None)
                    /\ DOMAIN new = DOMAIN old \cup {pubkey}
                    /\ new[pubkey] = rawsig
                    /\ \A other \in DOMAIN old \ {pubkey} : new[other] = old[other]
                    /\ (pubkey \in DOMAIN old /\ old[pubkey] = rawsig) =>
                            (ret'.value = Some(rawsig) /\ new = old)
    ]_vars

\* The record holds a single signature, and the last add_signature call
\* returned that same signature as the previous one.
C7_Witness ==
    /\ ret.op = "add_signature"
    /\ ret.err = "Ok"
    /\ SigCount(tx) = 1
    /\ \E i \in InputIndexes : \E pk \in DOMAIN PsbtInputs[i].partial_sigs :
            ret.value = Some(PsbtInputs[i].partial_sigs[pk])

(***************************************************************************)
(* C8: for a key-hash input whose owning key holds a matching signature,   *)
(* finalize writes a witness of exactly two elements: the signature        *)
(* followed by its sighash flag byte, then the serialized public key whose *)
(* hash160 is in the script of the previous output.  The flag byte is the  *)
(* one of the sighash type of the signature: the stored byte for a         *)
(* standard flag (here ALL|ANYONECANPAY), ALL for the non-standard 0.      *)
(***************************************************************************)
KeyHashOwner(i) == CHOOSE pk \in PublicKeys : ScriptPubkey(i) = p2wpkh(pk)

C8_KeyHashWitness ==
    FinalizeOk =>
        \A i \in InputIndexes :
            ScriptPubkey(i).type = "p2wpkh" =>
                LET witness == PsbtInputs[i].final_script_witness[1]
                    rawsig == PsbtInputs[i].partial_sigs[KeyHashOwner(i)]
                    flag == rawsig[Len(rawsig)]
                    der == SubSeq(rawsig, 1, Len(rawsig) - 1)
                IN  /\ Len(witness) = 2
                    /\ witness[1] = (IF flag = 0 THEN der \o <<1>> ELSE rawsig)
                    /\ witness[2] = to_bytes(KeyHashOwner(i))

\* The fee-bump input of the cancel transaction was finalized with the
\* signature of the fee-bump key, flag byte ALL|ANYONECANPAY.
C8_Witness ==
    /\ FinalizeOk
    /\ ScriptPubkey(2) = p2wpkh(feebump_xpub)
    /\ PsbtInputs[2].final_script_witness =
            Some(<< <<DER_SEQUENCE_TAG, 129>>, to_bytes(feebump_xpub) >>)

(***************************************************************************)
(* C9 as stated: finalizing a record whose key-hash (fee-bump) input has   *)
(* no matching signature fails with the 'No signature for pubkey' error.   *)
(* (The inputs before it are satisfiable, so that finalize gets to it.)    *)
(***************************************************************************)
KeyHashUnsigned(i) ==
    /\ ScriptPubkey(i).type = "p2wpkh"
    /\ ~KeyHashSigned(i)
    /\ \A j \in 1..(i - 1) : InputSatisfiable(j)

C9_MissingSignatureError ==
    \A i \in InputIndexes :
        (FinalizeReturned /\ KeyHashUnsigned(i)) => ret.err = "NoSignatureForPubkey"

(***************************************************************************)
(* C9 amended: finalizing a record whose key-hash (fee-bump) input has no  *)
(* matching signature fails on that input; the error is 'No signature for  *)
(* pubkey' when the owning key has an entry in the signature map of the    *)
(* input that does not parse as a signature, and 'Could not find pubkey    *)
(* associated with hash' when the key has no entry at all.                 *)
(***************************************************************************)
C9_KeyHashFailure ==
    \A i \in InputIndexes :
        (FinalizeReturned /\ KeyHashUnsigned(i)) =>
            /\ ret.idx = Some(i - 1)
            /\ KeyHashOwner(i) \in DOMAIN PsbtInputs[i].partial_sigs =>
                    ret.err = "NoSignatureForPubkey"
            /\ KeyHashOwner(i) \notin DOMAIN PsbtInputs[i].partial_sigs =>
                    ret.err = "CouldNotFindPubkey"

\* finalize failed with 'No signature for pubkey' on a fee-bump input whose
\* key holds an unparsable signature.
C9_Witness ==
    /\ FinalizeReturned
    /\ Len(PsbtInputs) = 2
    /\ KeyHashUnsigned(2)
    /\ feebump_xpub \in DOMAIN PsbtInputs[2].partial_sigs
    /\ ret.err = "NoSignatureForPubkey"

(***************************************************************************)
(* C10: when the unvault input (index 0) of an Unvault-Emergency or Cancel *)
(* transaction is fully signed and no signature was ever added to its      *)
(* fee-bump input (index 1), finalize fails with the 'Could not find       *)
(* pubkey associated with hash' error, raised for the fee-bump input.      *)
(***************************************************************************)
FeeBumpNeverSigned ==
    /\ tx.variant \in {"UnvaultEmergencyTransaction", "CancelTransaction"}
    /\ Len(PsbtInputs) = 2
    /\ Participants \subseteq SignedKeys(1)
    /\ DOMAIN PsbtInputs[2].partial_sigs = {}

C10_UnsignedFeeBumpFails ==
    (FinalizeReturned /\ FeeBumpNeverSigned) =>
        (ret.err = "CouldNotFindPubkey" /\ ret.idx = Some(1))

\* finalize failed on the never-signed fee-bump input of a fully signed
\* unvault-emergency transaction.
C10_Witness ==
    /\ FinalizeReturned
    /\ FeeBumpNeverSigned
    /\ tx.variant = "UnvaultEmergencyTransaction"
    /\ ret.err = "CouldNotFindPubkey"
    /\ ret.idx = Some(1)

(***************************************************************************)
(* The tagged-union construction API (transations.rs): previous outputs    *)
(* and outputs carry their kind at run time and each new_* routine matches *)
(* on the kinds it was given.                                              *)
(***************************************************************************)
RevaultPrevout(kind, outpoint) == [kind |-> kind, outpoint |-> outpoint]
RevaultTxOut(kind, txout) == [kind |-> kind, txout |-> txout]

\* The kinds of a slice of prevouts or txouts, in order.
kinds(slice) == [i \in 1..Len(slice) |-> slice[i].kind]

\* TxIn { previous_output, sequence, ..Default::default() }
TxIn(previous_output, sequence) ==
    [previous_output |-> previous_output, sequence |-> sequence]
TxIn_default_sequence == U32_MAX

Transaction(input, output) ==
    [version |-> 2, lock_time |-> 0, input |-> input, output |-> output]

Ok(value) == [err |-> "Ok", value |-> Some(value)]
Err(err) == [err |-> err, value |-> None]

new_unvault(prevouts, txouts) ==
    IF kinds(prevouts) = <<"VaultPrevout">>
       /\ kinds(txouts) = <<"UnvaultTxOut", "CpfpTxOut">>
    THEN Ok([variant |-> "UnvaultTransaction",
             tx |-> Transaction(<<TxIn(prevouts[1].outpoint, TxIn_default_sequence)>>,
                                <<txouts[1].txout, txouts[2].txout>>)])
    ELSE Err("TransactionCreation")

\* new_spend giving its inputs the sequence of the revaulting transactions.
new_spend_rbf(prevouts, outputs, csv_value) ==
    IF \E i \in 1..Len(prevouts) : prevouts[i].kind # "UnvaultPrevout"
    THEN Err("TransactionCreation")
    ELSE IF \E j \in 1..Len(outputs) : outputs[j].kind \notin {"SpendTxOut", "VaultTxOut"}
    THEN Err("TransactionCreation")
    ELSE Ok([variant |-> "SpendTransaction",
             tx |-> Transaction([i \in 1..Len(prevouts) |->
                                    TxIn(prevouts[i].outpoint, RBF_SEQUENCE)],
                                [j \in 1..Len(outputs) |-> outputs[j].txout])])

new_spend(prevouts, outputs, csv_value) ==
    IF \E i \in 1..Len(prevouts) : prevouts[i].kind # "UnvaultPrevout"
    THEN Err("TransactionCreation")
    ELSE IF \E j \in 1..Len(outputs) : outputs[j].kind \notin {"SpendTxOut", "VaultTxOut"}
    THEN Err("TransactionCreation")
    ELSE Ok([variant |-> "SpendTransaction",
             tx |-> Transaction([i \in 1..Len(prevouts) |->
                                    TxIn(prevouts[i].outpoint, csv_value)],
                                [j \in 1..Len(outputs) |-> outputs[j].txout])])

\* new_cancel matching the kinds of the prevouts as a set, in any order.
new_cancel_any_order(prevouts, txouts) ==
    IF Len(prevouts) \in {1, 2}
       /\ "UnvaultPrevout" \in Range(kinds(prevouts))
       /\ Range(kinds(prevouts)) \subseteq {"UnvaultPrevout", "FeeBumpPrevout"}
       /\ kinds(txouts) = <<"VaultTxOut">>
    THEN Ok([variant |-> "CancelTransaction",
             tx |-> Transaction([i \in 1..Len(prevouts) |->
                                    TxIn(prevouts[i].outpoint, RBF_SEQUENCE)],
                                <<txouts[1].txout>>)])
    ELSE Err("TransactionCreation")

new_cancel(prevouts, txouts) ==
    IF kinds(prevouts) \in {<<"UnvaultPrevout">>, <<"UnvaultPrevout", "FeeBumpPrevout">>}
       /\ kinds(txouts) = <<"VaultTxOut">>
    THEN Ok([variant |-> "CancelTransaction",
             tx |-> Transaction([i \in 1..Len(prevouts) |->
                                    TxIn(prevouts[i].outpoint, RBF_SEQUENCE)],
                                <<txouts[1].txout>>)])
    ELSE Err("TransactionCreation")

new_emergency(prevouts, txouts) ==
    IF kinds(prevouts) \in {<<"VaultPrevout">>, <<"VaultPrevout", "FeeBumpPrevout">>,
                            <<"UnvaultPrevout">>, <<"UnvaultPrevout", "FeeBumpPrevout">>}
       /\ kinds(txouts) = <<"EmergencyTxOut">>
    THEN Ok([variant |-> "EmergencyTransaction",
             tx |-> Transaction([i \in 1..Len(prevouts) |->
                                    TxIn(prevouts[i].outpoint, RBF_SEQUENCE)],
                                <<txouts[1].txout>>)])
    ELSE Err("TransactionCreation")

(***************************************************************************)
(* Construction as a state machine: every step is one constructor call of  *)
(* either API, on arguments drawn from the sets below.  tx is the Option   *)
(* of the record the call produced; ret keeps the call and its arguments.  *)
(***************************************************************************)
MaxPrevouts == 2
MaxTxOuts == 2

SeqsUpTo(S, n) == UNION {[1..k -> S] : k \in 0..n}

Prevouts ==
    {RevaultPrevout("VaultPrevout", OutPoint("vault_tx", 0)),
     RevaultPrevout("UnvaultPrevout", OutPoint("unvault_tx", 0)),
     RevaultPrevout("UnvaultPrevout", OutPoint("other_unvault_tx", 0)),
     RevaultPrevout("FeeBumpPrevout", OutPoint("feebump_tx", 0)),
     RevaultPrevout("CpfpPrevout", OutPoint("unvault_tx", 1))}

TxOuts ==
    {RevaultTxOut("VaultTxOut", get_txout(revault_txo)),
     RevaultTxOut("UnvaultTxOut", get_txout(unvault_txo)),
     RevaultTxOut("SpendTxOut", get_txout(spend_txo)),
     RevaultTxOut("EmergencyTxOut", get_txout(emer_txo)),
     RevaultTxOut("CpfpTxOut", get_txout(cpfp_txo))}

CsvValues == {u32(CSV_VALUE), u32(CSV_VALUE + 1)}
LockTimes == {0, 1}
FeeBumpSequences == {RBF_SEQUENCE, U32_MAX}

\* The arguments the typed constructors accept.
VaultTxIns == {vault_txin(sequence) : sequence \in {RBF_SEQUENCE, U32_MAX}}
UnvaultTxIns ==
    {unvault_txin(sequence) : sequence \in UnvaultSequences}
    \cup {RevaultTxIn_new(OutPoint("other_unvault_tx", 0), unvault_txo, u32(CSV_VALUE))}
FeeBumpTxIns == {None} \cup {Some(feebump_txin(sequence)) : sequence \in FeeBumpSequences}
SpendTxOuts == {spend_txo, revault_txo}

\* What ret records of a constructor call: the call, its arguments, its error.
Called(op, args, result) ==
    [op |-> op, err |-> result.err, idx |-> None, value |-> None, args |-> args]

\* No constructor was called yet.
NothingBuilt == ret.op = "none"

NewUnvault ==
    /\ NothingBuilt
    /\ \E prevouts \in [1..1 -> Prevouts], txouts \in [1..2 -> TxOuts] :
        LET result == new_unvault(prevouts, txouts)
        IN  /\ tx' = result.value
            /\ ret' = Called("new_unvault",
                             [prevouts |-> prevouts, txouts |-> txouts], result)
            /\ UNCHANGED failed

NewSpend ==
    /\ NothingBuilt
    /\ \E prevouts \in SeqsUpTo(Prevouts, MaxPrevouts), outputs \in SeqsUpTo(TxOuts, MaxTxOuts),
       csv_value \in CsvValues :
        LET result == new_spend(prevouts, outputs, csv_value)
        IN  /\ tx' = result.value
            /\ ret' = Called("new_spend",
                             [prevouts |-> prevouts, txouts |-> outputs,
                              csv_value |-> csv_value], result)
            /\ UNCHANGED failed

NewCancel ==
    /\ NothingBuilt
    /\ \E prevouts \in SeqsUpTo(Prevouts, MaxPrevouts), txouts \in SeqsUpTo(TxOuts, MaxTxOuts) :
        LET result == new_cancel(prevouts, txouts)
        IN  /\ tx' = result.value
            /\ ret' = Called("new_cancel",
                             [prevouts |-> prevouts, txouts |-> txouts], result)
            /\ UNCHANGED failed

NewEmergency ==
    /\ NothingBuilt
    /\ \E prevouts \in SeqsUpTo(Prevouts, MaxPrevouts), txouts \in SeqsUpTo(TxOuts, MaxTxOuts) :
        LET result == new_emergency(prevouts, txouts)
        IN  /\ tx' = result.value
            /\ ret' = Called("new_emergency",
                             [prevouts |-> prevouts, txouts |-> txouts], result)
            /\ UNCHANGED failed

\* The typed constructors cannot fail: they return the record itself.
TypedArgs(txins, txouts, lock_time) ==
    [txins |-> txins, txouts |-> txouts, lock_time |-> lock_time]

UnvaultNew ==
    /\ NothingBuilt
    /\ \E vault_input \in VaultTxIns, lock_time \in LockTimes :
        LET result == Ok(UnvaultTransaction_new(vault_input, unvault_txo, cpfp_txo, lock_time))
        IN  /\ tx' = result.value
            /\ ret' = Called("UnvaultTransaction::new",
                             TypedArgs(<<vault_input>>, <<unvault_txo, cpfp_txo>>, lock_time),
                             result)
            /\ UNCHANGED failed

CancelNew ==
    /\ NothingBuilt
    /\ \E unvault_input \in UnvaultTxIns, feebump_input \in FeeBumpTxIns,
       lock_time \in LockTimes :
        LET result == Ok(CancelTransaction_new(unvault_input, feebump_input,
                                               revault_txo, lock_time))
        IN  /\ tx' = result.value
            /\ ret' = Called("CancelTransaction::new",
                             TypedArgs(<<unvault_input>> \o feebump_input,
                                       <<revault_txo>>, lock_time),
                             result)
            /\ UNCHANGED failed

EmergencyNew ==
    /\ NothingBuilt
    /\ \E vault_input \in VaultTxIns, feebump_input \in FeeBumpTxIns,
       lock_time \in LockTimes :
        LET result == Ok(EmergencyTransaction_new(vault_input, feebump_input,
                                                  emer_txo, lock_time))
        IN  /\ tx' = result.value
            /\ ret' = Called("EmergencyTransaction::new",
                             TypedArgs(<<vault_input>> \o feebump_input,
                                       <<emer_txo>>, lock_time),
                             result)
            /\ UNCHANGED failed

UnvaultEmergencyNew ==
    /\ NothingBuilt
    /\ \E unvault_input \in UnvaultTxIns, feebump_input \in FeeBumpTxIns,
       lock_time \in LockTimes :
        LET result == Ok(UnvaultEmergencyTransaction_new(unvault_input, feebump_input,
                                                         emer_txo, lock_time))
        IN  /\ tx' = result.value
            /\ ret' = Called("UnvaultEmergencyTransaction::new",
                             TypedArgs(<<unvault_input>> \o feebump_input,
                                       <<emer_txo>>, lock_time),
                             result)
            /\ UNCHANGED failed

SpendNew ==
    /\ NothingBuilt
    /\ \E unvault_inputs \in SeqsUpTo(UnvaultTxIns, MaxPrevouts),
       spend_txouts \in SeqsUpTo(SpendTxOuts, MaxTxOuts), lock_time \in LockTimes :
        LET result == Ok(SpendTransaction_new(unvault_inputs, spend_txouts, lock_time))
        IN  /\ tx' = result.value
            /\ ret' = Called("SpendTransaction::new",
                             TypedArgs(unvault_inputs, spend_txouts, lock_time), result)
            /\ UNCHANGED failed

InitConstruction ==
    /\ tx = None
    /\ ret = [op |-> "none", err |-> "Ok", idx |-> None, value |-> None, args |-> << >>]
    /\ failed = FALSE

NextConstruction ==
    \/ NewUnvault \/ NewSpend \/ NewCancel \/ NewEmergency
    \/ UnvaultNew \/ CancelNew \/ EmergencyNew \/ UnvaultEmergencyNew \/ SpendNew

SpecConstruction == InitConstruction /\ [][NextConstruction]_vars

(***************************************************************************)
(* Vocabulary of the construction properties.                              *)
(***************************************************************************)
BoxedOps == {"new_unvault", "new_spend", "new_cancel", "new_emergency"}
RevaultingTypedOps ==
    {"CancelTransaction::new", "EmergencyTransaction::new",
     "UnvaultEmergencyTransaction::new"}
TypedOps == RevaultingTypedOps \cup {"UnvaultTransaction::new", "SpendTransaction::new"}

Built == ret.op \in BoxedOps \cup TypedOps /\ ret.err = "Ok"

\* The unsigned skeleton of the record a constructor returned.
Skeleton == IF ret.op \in BoxedOps THEN tx[1].tx ELSE tx[1].psbt.global.unsigned_tx

EveryKind(slice, allowed) == \A i \in 1..Len(slice) : slice[i].kind \in allowed

(***************************************************************************)
(* C11: kind restriction of the boxed construction API.  new_unvault       *)
(* succeeds iff prevouts is [Vault] and txouts is [Unvault, Cpfp];         *)
(* new_cancel iff prevouts is [Unvault] or [Unvault, FeeBump] and txouts   *)
(* is [Vault]; new_emergency iff prevouts is [Vault], [Vault, FeeBump],    *)
(* [Unvault] or [Unvault, FeeBump] and txouts is [Emergency]; new_spend    *)
(* iff every prevout is Unvault and every output is Spend or Vault.  Any   *)
(* other call returns the TransactionCreation error and no transaction.    *)
(***************************************************************************)
C11_KindRestriction ==
    ret.op \in BoxedOps =>
        LET prevout_kinds == kinds(ret.args.prevouts)
            txout_kinds == kinds(ret.args.txouts)
            allowed ==
                CASE ret.op = "new_unvault" ->
                        /\ prevout_kinds = <<"VaultPrevout">>
                        /\ txout_kinds = <<"UnvaultTxOut", "CpfpTxOut">>
                  [] ret.op = "new_cancel" ->
                        /\ \/ prevout_kinds = <<"UnvaultPrevout">>
                           \/ prevout_kinds = <<"UnvaultPrevout", "FeeBumpPrevout">>
                        /\ txout_kinds = <<"VaultTxOut">>
                  [] ret.op = "new_emergency" ->
                        /\ \/ prevout_kinds = <<"VaultPrevout">>
                           \/ prevout_kinds = <<"VaultPrevout", "FeeBumpPrevout">>
                           \/ prevout_kinds = <<"UnvaultPrevout">>
                           \/ prevout_kinds = <<"UnvaultPrevout", "FeeBumpPrevout">>
                        /\ txout_kinds = <<"EmergencyTxOut">>
                  [] ret.op = "new_spend" ->
                        /\ EveryKind(ret.args.prevouts, {"UnvaultPrevout"})
                        /\ EveryKind(ret.args.txouts, {"SpendTxOut", "VaultTxOut"})
        IN  /\ allowed => (ret.err = "Ok" /\ tx # None)
            /\ ~allowed => (ret.err = "TransactionCreation" /\ tx = None)

\* new_cancel was refused prevouts of the allowed kinds in the wrong order.
C11_Witness ==
    /\ ret.op = "new_cancel"
    /\ kinds(ret.args.prevouts) = <<"FeeBumpPrevout", "UnvaultPrevout">>
    /\ kinds(ret.args.txouts) = <<"VaultTxOut">>
    /\ ret.err = "TransactionCreation"
    /\ tx = None

\* What the caller supplied, in order: the outpoints to spend and the
\* outputs to create.
SuppliedOutpoints ==
    IF ret.op \in BoxedOps
    THEN [i \in 1..Len(ret.args.prevouts) |-> ret.args.prevouts[i].outpoint]
    ELSE [i \in 1..Len(ret.args.txins) |-> ret.args.txins[i].outpoint]
SuppliedOutputs ==
    IF ret.op \in BoxedOps
    THEN [j \in 1..Len(ret.args.txouts) |-> ret.args.txouts[j].txout]
    ELSE [j \in 1..Len(ret.args.txouts) |-> get_txout(ret.args.txouts[j])]

(***************************************************************************)
(* C12: a successfully constructed transaction has one skeleton input per  *)
(* supplied previous output and one skeleton output per supplied output,   *)
(* in the supplied order: input i references the outpoint of the i-th      *)
(* previous output and output j is the j-th supplied output.               *)
(***************************************************************************)
C12_SkeletonFollowsArguments ==
    Built =>
        /\ Len(Skeleton.input) = Len(SuppliedOutpoints)
        /\ \A i \in 1..Len(Skeleton.input) :
                Skeleton.input[i].previous_output = SuppliedOutpoints[i]
        /\ Skeleton.output = SuppliedOutputs

\* A typed spend was built from two different unvault outpoints and two
\* different outputs.
C12_Witness ==
    /\ Built
    /\ ret.op = "SpendTransaction::new"
    /\ Len(Skeleton.input) = 2
    /\ Skeleton.input[1].previous_output # Skeleton.input[2].previous_output
    /\ Len(Skeleton.output) = 2
    /\ Skeleton.output[1] # Skeleton.output[2]

(***************************************************************************)
(* C13: every Spend transaction a constructor returns has at least one     *)
(* input and at least one output: a call with an empty list of unvault     *)
(* inputs or an empty list of outputs yields no transaction.               *)
(***************************************************************************)
C13_SpendIsNeverEmpty ==
    (Built /\ ret.op \in {"new_spend", "SpendTransaction::new"}) =>
        /\ Len(Skeleton.input) >= 1
        /\ Len(Skeleton.output) >= 1

(***************************************************************************)
(* C14: every input of every constructed revaulting transaction (cancel,   *)
(* emergency, unvault-emergency), its fee-bump input included, has the     *)
(* sequence RBF_SEQUENCE, whatever the caller supplies.                    *)
(***************************************************************************)
C14_RevaultingSequenceIsRbf ==
    (Built /\ ret.op \in {"new_cancel", "new_emergency"} \cup RevaultingTypedOps) =>
        \A i \in 1..Len(Skeleton.input) : Skeleton.input[i].sequence = RBF_SEQUENCE

(***************************************************************************)
(* C15: every input of a constructed Spend transaction has the sequence    *)
(* the caller supplied as relative timelock, for any number of batched     *)
(* unvault inputs: the csv_value argument of new_spend, and the sequence   *)
(* each UnvaultTxIn was given for SpendTransaction::new.                   *)
(***************************************************************************)
C15_SpendSequenceIsSupplied ==
    /\ (Built /\ ret.op = "new_spend") =>
            \A i \in 1..Len(Skeleton.input) :
                Skeleton.input[i].sequence = ret.args.csv_value
    /\ (Built /\ ret.op = "SpendTransaction::new") =>
            \A i \in 1..Len(Skeleton.input) :
                Skeleton.input[i].sequence = ret.args.txins[i].sequence

\* new_spend built a spend of two batched unvault outputs with the timelock
\* it was given.
C15_Witness ==
    /\ Built
    /\ ret.op = "new_spend"
    /\ Len(Skeleton.input) = 2
    /\ ret.args.csv_value = u32(CSV_VALUE + 1)
    /\ Skeleton.input[2].sequence = u32(CSV_VALUE + 1)

(***************************************************************************)
(* C16: every transaction built by a constructor has version 2 and the     *)
(* lock time the caller supplied.  (The new_* routines of the tagged-union *)
(* API take no lock time: they set it to 0.)                               *)
(***************************************************************************)
C16_VersionAndLockTime ==
    Built =>
        /\ Skeleton.version = 2
        /\ ret.op \in TypedOps => Skeleton.lock_time = ret.args.lock_time
        /\ ret.op \in BoxedOps => Skeleton.lock_time = 0

\* A typed constructor was given a lock time other than 0.
C16_Witness ==
    /\ Built
    /\ ret.op = "CancelTransaction::new"
    /\ ret.args.lock_time = 1
    /\ Skeleton.lock_time = 1

(***************************************************************************)
(* C17: in every state reachable from a constructor by add_signature and   *)
(* finalize calls, successful or failing, the number of per-input records  *)
(* equals the number of skeleton inputs.                                   *)
(***************************************************************************)
C17_InputCountInvariant ==
    Len(tx.psbt.inputs) = Len(tx.psbt.global.unsigned_tx.input)

\* An out-of-range add_signature was refused on a two-input record on which
\* a finalize had failed, and on which signatures are stored.
C17_Witness ==
    /\ failed
    /\ ret.op = "add_signature"
    /\ ret.err = "InputOutOfBonds"
    /\ SigCount(tx) >= 1
    /\ Len(tx.psbt.inputs) = 2
    /\ Len(tx.psbt.global.unsigned_tx.input) = 2

(***************************************************************************)
(* C18: finalize is a one-way transition.  Once finalize has succeeded     *)
(* (every input holds its final witness), no later add_signature or        *)
(* finalize call changes a signature map or a final witness of the record. *)
(***************************************************************************)
Finalized == \A i \in InputIndexes : PsbtInputs[i].final_script_witness # None

C18_FinalizeIsOneWay ==
    [][Finalized =>
        \A i \in InputIndexes :
            /\ tx'.psbt.inputs[i].partial_sigs = PsbtInputs[i].partial_sigs
            /\ tx'.psbt.inputs[i].final_script_witness = PsbtInputs[i].final_script_witness
    ]_vars

(***************************************************************************)
(* What is derived from the unsigned skeleton: the outpoint of an output   *)
(* of the transaction and the BIP143 signature hash of an input.  A hash   *)
(* is represented by the tagged data it commits to.                        *)
(***************************************************************************)
\* Transaction::txid(): commits to the version, the inputs (outpoint and
\* sequence), the outputs and the lock time, and to no witness.
txid(unsigned_tx) ==
    <<"txid", unsigned_tx.version,
      [i \in 1..Len(unsigned_tx.input) |->
          <<unsigned_tx.input[i].previous_output, unsigned_tx.input[i].sequence>>],
      unsigned_tx.output, unsigned_tx.lock_time>>

into_outpoint(self, vout) == OutPoint(txid(self.psbt.global.unsigned_tx), vout)

\* sighash that signs with ALL whatever the flag.
sighash_always_all(psbt, input_index, previous_txout, script_code, is_anyonecanpay) ==
    LET unsigned_tx == psbt.global.unsigned_tx
        txin == unsigned_tx.input[input_index + 1]
    IN  [version |-> unsigned_tx.version,
         hash_prevouts |->
            [i \in 1..Len(unsigned_tx.input) |-> unsigned_tx.input[i].previous_output],
         hash_sequence |->
            [i \in 1..Len(unsigned_tx.input) |-> unsigned_tx.input[i].sequence],
         outpoint |-> txin.previous_output,
         script_code |-> script_code,
         value |-> previous_txout.value,
         sequence |-> txin.sequence,
         hash_outputs |-> unsigned_tx.output,
         lock_time |-> unsigned_tx.lock_time,
         sighash_type |-> 1]

\* SigHashCache::signature_hash with ALL or ALL|ANYONECANPAY; input_index
\* counts from 0.
sighash(psbt, input_index, previous_txout, script_code, is_anyonecanpay) ==
    LET unsigned_tx == psbt.global.unsigned_tx
        txin == unsigned_tx.input[input_index + 1]
    IN  [version |-> unsigned_tx.version,
         hash_prevouts |->
            IF is_anyonecanpay THEN << >>
            ELSE [i \in 1..Len(unsigned_tx.input) |-> unsigned_tx.input[i].previous_output],
         hash_sequence |->
            IF is_anyonecanpay THEN << >>
            ELSE [i \in 1..Len(unsigned_tx.input) |-> unsigned_tx.input[i].sequence],
         outpoint |-> txin.previous_output,
         script_code |-> script_code,
         value |-> previous_txout.value,
         sequence |-> txin.sequence,
         hash_outputs |-> unsigned_tx.output,
         lock_time |-> unsigned_tx.lock_time,
         sighash_type |-> IF is_anyonecanpay THEN 129 ELSE 1]

(***************************************************************************)
(* C19: the unsigned skeleton is immutable after construction.  No         *)
(* add_signature or finalize call changes the skeleton's inputs,           *)
(* sequences, outputs, version or lock time, so into_outpoint(vout) and    *)
(* the signature hash for given arguments are the same before and after    *)
(* the call.                                                               *)
(***************************************************************************)
C19_SkeletonImmutable ==
    [][/\ tx'.psbt.global.unsigned_tx = tx.psbt.global.unsigned_tx
       /\ \A vout \in 0..1 : into_outpoint(tx', vout) = into_outpoint(tx, vout)
       /\ \A i \in InputIndexes, is_anyonecanpay \in BOOLEAN :
            LET previous_txout == PsbtInputs[i].witness_utxo[1]
                script_code == PsbtInputs[i].witness_script
            IN  sighash(tx'.psbt, i - 1, previous_txout, script_code, is_anyonecanpay)
                    = sighash(tx.psbt, i - 1, previous_txout, script_code, is_anyonecanpay)
    ]_vars

\* The cancel transaction, signed and finalized, still gives the outpoint
\* it gave when it was constructed.
C19_Witness ==
    /\ FinalizeOk
    /\ tx.variant = "CancelTransaction"
    /\ Len(PsbtInputs) = 2
    /\ into_outpoint(tx, 0) =
            into_outpoint(CancelTransaction_new(unvault_txin(RBF_SEQUENCE),
                                                Some(feebump_txin(RBF_SEQUENCE)),
                                                revault_txo, 0), 0)

(***************************************************************************)
(* Records spending an unvault output whose policy requires a relative     *)
(* timelock with the seconds-based flag (bit 22) set.                      *)
(***************************************************************************)
SEQUENCE_LOCKTIME_TYPE_FLAG == 4194304

seconds_unvault_txo ==
    UnvaultTxOut_new(7000, unvault_descriptor(u32(SEQUENCE_LOCKTIME_TYPE_FLAG + CSV_VALUE)))

seconds_unvault_txin(sequence) ==
    RevaultTxIn_new(OutPoint("unvault_tx", 0), seconds_unvault_txo, sequence)

InitSecondsFlag ==
    InitWith({SpendTransaction_new(<<seconds_unvault_txin(sequence)>>, <<spend_txo>>, 0) :
                sequence \in {u32(CSV_VALUE), u32(SEQUENCE_LOCKTIME_TYPE_FLAG + CSV_VALUE),
                              RBF_SEQUENCE}}
             \cup
             {CancelTransaction_new(seconds_unvault_txin(RBF_SEQUENCE),
                                    Some(feebump_txin(RBF_SEQUENCE)), revault_txo, 0)})

SpecSecondsFlag == InitSecondsFlag /\ [][Next]_vars

(***************************************************************************)
(* C20: when the relative-timelock check is asked about a required CSV     *)
(* value whose seconds-based flag (bit 22) is set, it answers 'not         *)
(* satisfied', which leads at most to a typed finalize failure: finalize   *)
(* returns and the process is never aborted.                               *)
(***************************************************************************)
C20_SecondsFlagNeverAborts ==
    (FinalizeReturned /\ u32_bit(RequiredCsv(1), 22)) => ret.err # "Panic"

(***************************************************************************)
(* The relative-timelock check on its own: every step asks a satisfier of  *)
(* some sequence about some required CSV value.  The numbers are kept in   *)
(* ret next to the answer; the satisfier gets them as 32-bit values.       *)
(***************************************************************************)
MaxCsvOffset == 2

\* Values around the CSV of the tests, around the 16-bit boundary and
\* around the seconds-based flag.
TimelockValues ==
    {0, 65535, 65536, SEQUENCE_LOCKTIME_TYPE_FLAG - 1}
    \cup {CSV_VALUE + d : d \in 0..MaxCsvOffset}
    \cup {CSV_VALUE - d : d \in 0..MaxCsvOffset}
    \cup {65536 + CSV_VALUE + d : d \in 0..MaxCsvOffset}

\* Sequences, which may also have the seconds-based flag set.
SequenceValues ==
    TimelockValues \cup {SEQUENCE_LOCKTIME_TYPE_FLAG + CSV_VALUE, 2147483647}

CheckOlder ==
    \E sequence \in SequenceValues, csv \in TimelockValues :
        LET done == check_older(RevaultInputSatisfier_new(NoSigs, u32(sequence)), u32(csv))
        IN  /\ tx' = tx
            /\ ret' = [op |-> "check_older", err |-> IF done.panicked THEN "Panic" ELSE "Ok",
                       idx |-> None, value |-> Some(done.value),
                       args |-> [sequence |-> sequence, csv |-> csv]]
            /\ UNCHANGED failed

InitCheckOlder ==
    /\ tx = None
    /\ ret = [op |-> "none", err |-> "Ok", idx |-> None, value |-> None, args |-> << >>]
    /\ failed = FALSE

SpecCheckOlder == InitCheckOlder /\ [][CheckOlder]_vars

(***************************************************************************)
(* C21: for every block-based required CSV value and every input sequence, *)
(* the relative-timelock check answers true exactly when sequence >=       *)
(* required value as unsigned 32-bit integers: a sequence strictly above   *)
(* the requirement is accepted, not only one equal to it.                  *)
(***************************************************************************)
C21_CheckOlderIsAtLeast ==
    ret.op = "check_older" =>
        /\ ret.err = "Ok"
        /\ ret.value = Some(ret.args.sequence >= ret.args.csv)

\* The check accepted a sequence strictly above the required value, in the
\* upper 16 bits only.
C21_Witness ==
    /\ ret.op = "check_older"
    /\ ret.args.csv = 65535
    /\ ret.args.sequence = 65536
    /\ ret.value = Some(TRUE)

(***************************************************************************)
(* The signature-hash routines of the variants.  The type of the           *)
(* previous_txout parameter is checked when the call is compiled: a call   *)
(* with a txout of another type is no call at all, which is None here.     *)
(***************************************************************************)
UnvaultPrevTxout == {"VaultTxOut"}
CancelPrevTxout_any == {"VaultTxOut", "UnvaultTxOut", "FeeBumpTxOut"}
CancelPrevTxout == {"UnvaultTxOut", "FeeBumpTxOut"}
EmergencyPrevTxout_documented == {"UnvaultTxOut", "FeeBumpTxOut"}
EmergencyPrevTxout == {"VaultTxOut", "FeeBumpTxOut"}
UnvaultEmerPrevTxout == {"UnvaultTxOut", "FeeBumpTxOut"}
SpendPrevTxout == {"UnvaultTxOut"}

inner_txout(revault_txout) == revault_txout.txout

UnvaultTransaction_signature_hash(self, input_index, previous_txout, script_code) ==
    IF previous_txout.kind \notin UnvaultPrevTxout THEN None
    ELSE Some(sighash(self.psbt, input_index, inner_txout(previous_txout),
                      script_code, FALSE))

CancelTransaction_signature_hash(self, input_index, previous_txout, script_code, is_anyonecanpay) ==
    IF previous_txout.kind \notin CancelPrevTxout THEN None
    ELSE Some(sighash(self.psbt, input_index, inner_txout(previous_txout),
                      script_code, is_anyonecanpay))

EmergencyTransaction_signature_hash(self, input_index, previous_txout, script_code, is_anyonecanpay) ==
    IF previous_txout.kind \notin EmergencyPrevTxout THEN None
    ELSE Some(sighash(self.psbt, input_index, inner_txout(previous_txout),
                      script_code, is_anyonecanpay))

UnvaultEmergencyTransaction_signature_hash(self, input_index, previous_txout, script_code, is_anyonecanpay) ==
    IF previous_txout.kind \notin UnvaultEmerPrevTxout THEN None
    ELSE Some(sighash(self.psbt, input_index, inner_txout(previous_txout),
                      script_code, is_anyonecanpay))

SpendTransaction_signature_hash(self, input_index, previous_txout, script_code) ==
    IF previous_txout.kind \notin SpendPrevTxout THEN None
    ELSE Some(sighash(self.psbt, input_index, inner_txout(previous_txout),
                      script_code, FALSE))

\* Transaction::signature_hash(input_index, script_pubkey, sighash_u32) of
\* the tagged-union API: the legacy digest.
legacy_signature_hash(transaction, input_index, script_pubkey, sighash_u32) ==
    [version |-> transaction.version,
     inputs |-> IF sighash_u32 >= 128
                THEN <<transaction.input[input_index + 1]>>
                ELSE transaction.input,
     input_index |-> IF sighash_u32 >= 128 THEN 0 ELSE input_index,
     script_pubkey |-> script_pubkey,
     outputs |-> transaction.output,
     lock_time |-> transaction.lock_time,
     sighash_type |-> sighash_u32]

\* RevaultTransaction::signature_hash of the tagged-union API, the same for
\* every variant.
signature_hash(self, input_index, script_pubkey, anyonecanpay) ==
    IF anyonecanpay
    THEN legacy_signature_hash(self.tx, input_index, script_pubkey, 129)
    ELSE legacy_signature_hash(self.tx, input_index, script_pubkey, 1)

(***************************************************************************)
(* Requests of signature hashes on a constructed record, with a previous   *)
(* output of any kind.  ret keeps the request and the Option of the hash.  *)
(***************************************************************************)
PrevTxOuts == {vault_txo, unvault_txo, feebump_txo, cpfp_txo, emer_txo, spend_txo}

\* The script code signed for a previous output: its witness script, or
\* the script derived from its script pubkey when it has none.
script_code_of(previous_txout) ==
    IF into_witness_script(previous_txout) # None
    THEN into_witness_script(previous_txout)[1]
    ELSE get_txout(previous_txout).script_pubkey

SigHashed(op, input_index, previous_txout, is_anyonecanpay, result) ==
    [op |-> op, err |-> IF result = None THEN "MismatchedTypes" ELSE "Ok",
     idx |-> None, value |-> result,
     args |-> [input_index |-> input_index, previous_txout |-> previous_txout,
               is_anyonecanpay |-> is_anyonecanpay]]

UnvaultSignatureHash ==
    /\ tx.variant = "UnvaultTransaction"
    /\ \E input_index \in 0..(Len(tx.psbt.inputs) - 1), previous_txout \in PrevTxOuts :
        ret' = SigHashed("UnvaultTransaction::signature_hash",
                         input_index, previous_txout, None,
                         UnvaultTransaction_signature_hash(
                            tx, input_index, previous_txout, script_code_of(previous_txout)))
    /\ UNCHANGED <<tx, failed>>

CancelSignatureHash ==
    /\ tx.variant = "CancelTransaction"
    /\ \E input_index \in 0..(Len(tx.psbt.inputs) - 1), previous_txout \in PrevTxOuts,
          is_anyonecanpay \in BOOLEAN :
        ret' = SigHashed("CancelTransaction::signature_hash",
                         input_index, previous_txout, Some(is_anyonecanpay),
                         CancelTransaction_signature_hash(
                            tx, input_index, previous_txout, script_code_of(previous_txout),
                            is_anyonecanpay))
    /\ UNCHANGED <<tx, failed>>

EmergencySignatureHash ==
    /\ tx.variant = "EmergencyTransaction"
    /\ \E input_index \in 0..(Len(tx.psbt.inputs) - 1), previous_txout \in PrevTxOuts,
          is_anyonecanpay \in BOOLEAN :
        ret' = SigHashed("EmergencyTransaction::signature_hash",
                         input_index, previous_txout, Some(is_anyonecanpay),
                         EmergencyTransaction_signature_hash(
                            tx, input_index, previous_txout, script_code_of(previous_txout),
                            is_anyonecanpay))
    /\ UNCHANGED <<tx, failed>>

UnvaultEmergencySignatureHash ==
    /\ tx.variant = "UnvaultEmergencyTransaction"
    /\ \E input_index \in 0..(Len(tx.psbt.inputs) - 1), previous_txout \in PrevTxOuts,
          is_anyonecanpay \in BOOLEAN :
        ret' = SigHashed("UnvaultEmergencyTransaction::signature_hash",
                         input_index, previous_txout, Some(is_anyonecanpay),
                         UnvaultEmergencyTransaction_signature_hash(
                            tx, input_index, previous_txout, script_code_of(previous_txout),
                            is_anyonecanpay))
    /\ UNCHANGED <<tx, failed>>

SpendSignatureHash ==
    /\ tx.variant = "SpendTransaction"
    /\ \E input_index \in 0..(Len(tx.psbt.inputs) - 1), previous_txout \in PrevTxOuts :
        ret' = SigHashed("SpendTransaction::signature_hash",
                         input_index, previous_txout, None,
                         SpendTransaction_signature_hash(
                            tx, input_index, previous_txout, script_code_of(previous_txout)))
    /\ UNCHANGED <<tx, failed>>

\* The same skeleton held by the tagged-union type, whose routine takes the
\* script pubkey and the flag for every variant.
BoxedSignatureHash ==
    \E input_index \in 0..(Len(tx.psbt.inputs) - 1), previous_txout \in PrevTxOuts,
       anyonecanpay \in BOOLEAN :
        /\ ret' = SigHashed("signature_hash", input_index, previous_txout, Some(anyonecanpay),
                            Some(signature_hash(
                                    [variant |-> tx.variant,
                                     tx |-> tx.psbt.global.unsigned_tx],
                                    input_index, get_txout(previous_txout).script_pubkey,
                                    anyonecanpay)))
        /\ UNCHANGED <<tx, failed>>

NextSignatureHash ==
    \/ UnvaultSignatureHash \/ CancelSignatureHash \/ EmergencySignatureHash
    \/ UnvaultEmergencySignatureHash \/ SpendSignatureHash \/ BoxedSignatureHash

SpecSignatureHash == Init /\ [][NextSignatureHash]_vars

SignatureHashOps ==
    {"UnvaultTransaction::signature_hash", "CancelTransaction::signature_hash",
     "EmergencyTransaction::signature_hash", "UnvaultEmergencyTransaction::signature_hash",
     "SpendTransaction::signature_hash"}

(***************************************************************************)
(* C22: the signature-hash type is ALL|ANYONECANPAY (0x81) exactly when    *)
(* the anyone-can-pay flag is true and ALL (0x01) otherwise; the Unvault   *)
(* and Spend routines, which take no flag, always use ALL.                 *)
(***************************************************************************)
C22_SigHashTypeFollowsFlag ==
    (ret.op \in SignatureHashOps \cup {"signature_hash"} /\ ret.value # None) =>
        /\ ret.args.is_anyonecanpay = Some(TRUE) => ret.value[1].sighash_type = 129
        /\ ret.args.is_anyonecanpay # Some(TRUE) => ret.value[1].sighash_type = 1
        /\ ret.op \in {"UnvaultTransaction::signature_hash",
                       "SpendTransaction::signature_hash"} =>
                ret.value[1].sighash_type = 1

\* An input of the cancel transaction was hashed with the flag set.
C22_Witness ==
    /\ ret.op = "CancelTransaction::signature_hash"
    /\ ret.args.is_anyonecanpay = Some(TRUE)
    /\ ret.value # None
    /\ ret.value[1].sighash_type = 129

\* The kind of the previous output of the last request, and whether the
\* request was accepted.
RequestedKind == ret.args.previous_txout.kind
Accepted == ret.value # None

WrittenBy(call) ==
    IF call.err = "Ok" THEN InputIndexes
    ELSE IF call.idx = None THEN {}
    ELSE 1..call.idx[1]

(***************************************************************************)
(* C25: for a P2WSH input, the final witness written by finalize is the    *)
(* elements produced by the satisfier for the parsed witness script        *)
(* followed by the serialized witness script itself as the last witness    *)
(* element, which is always present.                                       *)
(***************************************************************************)
C25_WitnessScriptIsLast ==
    [][ret'.op = "finalize" =>
        \A i \in WrittenBy(ret') :
            is_v0_p2wsh(ScriptPubkey(i)) =>
                LET psbtin == PsbtInputs[i]
                    txin == tx.psbt.global.unsigned_tx.input[i]
                    satisfaction ==
                        satisfy(miniscript_parse(psbtin.witness_script[1])[1],
                                RevaultInputSatisfier_new(psbtin.partial_sigs,
                                                          txin.sequence))
                    written == tx'.psbt.inputs[i].final_script_witness
                IN  /\ written # None
                    /\ satisfaction.st = "sat"
                    /\ Len(written[1]) = Len(satisfaction.stack) + 1
                    /\ SubSeq(written[1], 1, Len(satisfaction.stack)) = satisfaction.stack
                    /\ written[1][Len(written[1])] = encode(psbtin.witness_script[1])
    ]_vars

\* A finalized P2WSH input whose satisfaction has more than one element.
C25_Witness ==
    /\ FinalizeOk
    /\ \E i \in InputIndexes :
        /\ is_v0_p2wsh(ScriptPubkey(i))
        /\ PsbtInputs[i].final_script_witness # None
        /\ Len(PsbtInputs[i].final_script_witness[1]) >= 3
        /\ PsbtInputs[i].final_script_witness[1][Len(PsbtInputs[i].final_script_witness[1])]
                = encode(PsbtInputs[i].witness_script[1])

\* Records of one and of two inputs that collect well-formed signatures
\* and are finalized; the exchanged calls are made on each of their states.
NextInsertionOrder ==
    \/ AddAnySignature({<<DER_SEQUENCE_TAG, 129>>})
    \/ Finalize

SpecInsertionOrder == InitAddSignature /\ [][NextInsertionOrder]_vars

\* The add_signature calls a caller can make, and one call made on a record.
SignatureCalls == (0..MaxInputIndex) \X PublicKeys \X RawSigs
AfterCall(self, call) == add_signature(self, call[1], call[2], call[3]).tx

(***************************************************************************)
(* C26: signature insertion order is irrelevant.  Two add_signature calls  *)
(* on distinct (input, key) pairs, made in either order on any record,     *)
(* lead to the same signature maps and to the same finalize outcome (same  *)
(* success or failure, same witnesses); every ordering of a set of such    *)
(* calls is a sequence of such exchanges.                                  *)
(***************************************************************************)
C26_InsertionOrderIrrelevant ==
    \A a \in SignatureCalls, b \in SignatureCalls :
        (a[1] # b[1] \/ a[2] # b[2]) =>
            \A ab \in {AfterCall(AfterCall(tx, a), b)},
               ba \in {AfterCall(AfterCall(tx, b), a)} :
                /\ \A i \in InputIndexes :
                    ab.psbt.inputs[i].partial_sigs = ba.psbt.inputs[i].partial_sigs
                /\ finalize(ab) = finalize(ba)

\* Two signatures of different keys are in the map of one input, the last
\* one just inserted.
C26_Witness ==
    /\ ret.op = "add_signature"
    /\ ret.err = "Ok"
    /\ \E i \in InputIndexes :
        Cardinality(DOMAIN PsbtInputs[i].partial_sigs) >= 2

(***************************************************************************)
(* bitcoinconsensus::verify(prev_script, prev_value, tx, index), as the    *)
(* tests call it on every input: the witness of the input is run against   *)
(* the script of the output it spends.  Signature bytes carry no message   *)
(* here, so a well-formed signature is taken to verify: the rules kept are *)
(* the shape of the witness, the witness program, the key hashes and the   *)
(* relative timelock (BIP68 / BIP112).                                     *)
(***************************************************************************)
\* CHECKSEQUENCEVERIFY with operand n on an input of the given sequence.
CheckSequence(n, sequence, version) ==
    IF u32_bit(n, 31) THEN TRUE
    ELSE /\ version >= 2
         /\ ~u32_bit(sequence, 31)
         /\ u32_bit(sequence, 22) = u32_bit(n, 22)
         /\ sequence[2] >= n[2]

CheckSig(element) ==
    /\ Len(element) >= 2
    /\ from_der(SubSeq(element, 1, Len(element) - 1)) # None

Fails == [ok |-> FALSE, stack |-> << >>]
Pop(stack, n) == SubSeq(stack, 1, Len(stack) - n)
Top(stack, n) == stack[Len(stack) - n + 1]

\* The script of the policy tree ms run on a stack (top of stack last).
RECURSIVE execute(_, _, _, _)
execute(ms, stack, sequence, version) ==
    CASE ms.op = "multi" ->
            IF Len(stack) < ms.k + 1 THEN Fails
            ELSE IF /\ \A j \in 1..ms.k : CheckSig(Top(stack, j))
                    /\ Top(stack, ms.k + 1) = << >>
                 THEN [ok |-> TRUE, stack |-> Pop(stack, ms.k + 1)]
                 ELSE Fails
      [] ms.op = "pkh" ->
            IF Len(stack) < 2 THEN Fails
            ELSE IF /\ \E pk \in PublicKeys :
                            to_bytes(pk) = Top(stack, 1) /\ to_pubkeyhash(pk) = ms.hash
                    /\ CheckSig(Top(stack, 2))
                 THEN [ok |-> TRUE, stack |-> Pop(stack, 2)]
                 ELSE Fails
      [] ms.op = "older" ->
            IF CheckSequence(ms.n, sequence, version)
            THEN [ok |-> TRUE, stack |-> stack] ELSE Fails
      [] ms.op = "and" ->
            LET l == execute(ms.l, stack, sequence, version)
            IN  IF l.ok THEN execute(ms.r, l.stack, sequence, version) ELSE Fails
      [] ms.op = "or" ->
            IF Len(stack) < 1 THEN Fails
            ELSE IF Top(stack, 1) = <<1>>
                 THEN execute(ms.l, Pop(stack, 1), sequence, version)
                 ELSE IF Top(stack, 1) = << >>
                 THEN execute(ms.r, Pop(stack, 1), sequence, version)
                 ELSE Fails

\* The witness program of a P2WSH or P2WPKH output run on the witness of
\* input `index` (0-based) of the transaction.
bitcoinconsensus_verify(prev_script, witness, unsigned_tx, index) ==
    LET sequence == unsigned_tx.input[index + 1].sequence
    IN  IF is_v0_p2wpkh(prev_script)
        THEN /\ Len(witness) = 2
             /\ CheckSig(witness[1])
             /\ \E pk \in PublicKeys :
                    /\ to_bytes(pk) = witness[2]
                    /\ to_pubkeyhash(pk) = <<prev_script.program[1], prev_script.program[2]>>
        ELSE IF is_v0_p2wsh(prev_script)
        THEN /\ Len(witness) >= 1
             /\ \E witness_script \in {vault_descriptor, cpfp_descriptor}
                                       \cup {unvault_descriptor(csv) :
                                                csv \in {prev_script.program[3]}} :
                    /\ encode(witness_script) = witness[Len(witness)]
                    /\ p2wsh(witness_script) = prev_script
                    /\ LET run == execute(miniscript_parse(witness_script)[1],
                                          Pop(witness, 1), sequence,
                                          unsigned_tx.version)
                       IN  run.ok /\ run.stack = << >>
        ELSE FALSE

\* assert_libbitcoinconsensus_validity!: every input of the record verifies
\* against the output recorded for it.
ConsensusValid ==
    \A i \in InputIndexes :
        /\ PsbtInputs[i].final_script_witness # None
        /\ bitcoinconsensus_verify(ScriptPubkey(i), PsbtInputs[i].final_script_witness[1],
                                   tx.psbt.global.unsigned_tx, i - 1)

(***************************************************************************)
(* C27: every transaction of the vault -> emergency / unvault -> cancel /  *)
(* unvault-emergency / spend chain that finalize accepts is consensus-     *)
(* valid: each input verifies under the script interpreter against the     *)
(* script and amount of the output it spends.                              *)
(***************************************************************************)
C27_FinalizedIsConsensusValid == FinalizeOk => ConsensusValid

\* The witness of input i takes the timelock branch of the unvault script
\* although bit 31 of the sequence of the input disables relative timelocks.
DisabledTimelockTaken(i) ==
    LET witness == PsbtInputs[i].final_script_witness[1]
    IN  /\ PsbtInputs[i].witness_script # None
        /\ PsbtInputs[i].witness_script[1].desc = "unvault"
        \* below the script: the dummy and the signatures of the managers,
        \* then the selector of the branch
        /\ Len(witness) >= Len(managers) + 3
        /\ witness[Len(witness) - Len(managers) - 2] = << >>
        /\ u32_bit(Sequence(i), 31)

\* Apart from that case the accepted records are valid.
ValidUnlessTimelockDisabled ==
    (FinalizeOk /\ ~\E i \in InputIndexes : DisabledTimelockTaken(i)) => ConsensusValid

(***************************************************************************)
(* C28: finalize processes inputs in increasing index order and stops at   *)
(* the first input that cannot be finalized: the error it returns is the   *)
(* one of the lowest-index failing input, and no input with a higher       *)
(* index is examined or written in that call.                              *)
(***************************************************************************)
C28_StopsAtFirstFailingInput ==
    [][(ret'.op = "finalize" /\ ret'.err # "Ok") =>
        /\ ret'.idx # None
        /\ ret'.idx[1] + 1 \in InputIndexes
        /\ LET k == ret'.idx[1] + 1
           IN  /\ ~InputSatisfiable(k)
               /\ \A j \in 1..(k - 1) : InputSatisfiable(j)
               /\ ret'.err = finalize_input(PsbtInputs[k],
                                            tx.psbt.global.unsigned_tx.input[k]).err
               /\ \A j \in (k + 1)..Len(PsbtInputs) :
                    tx'.psbt.inputs[j] = PsbtInputs[j]
    ]_vars

\* finalize failed on the first input of a record whose second input is
\* signed and was left without witness.
C28_Witness ==
    /\ FinalizeErr
    /\ ret.idx = Some(0)
    /\ Len(PsbtInputs) = 2
    /\ InputSatisfiable(2)
    /\ PsbtInputs[2].final_script_witness = None

(***************************************************************************)
(* The opaque wrappers of the funding and fee-bumping transactions: any    *)
(* pre-formed record is accepted as it is.  The records given to them here *)
(* have up to MaxPrevouts skeleton inputs and up to MaxPrevouts per-input  *)
(* records, each with or without recorded previous output and witness      *)
(* script, signed or not.                                                  *)
(***************************************************************************)
VaultTransaction_new(psbt) == [variant |-> "VaultTransaction", psbt |-> psbt]
FeeBumpTransaction_new(psbt) == [variant |-> "FeeBumpTransaction", psbt |-> psbt]

\* A witness script that is no Miniscript.
unparsable_script == [desc |-> "raw", csv |-> u32(0)]

SignedBy(keys) == [pubkey \in keys |-> <<DER_SEQUENCE_TAG, 129>>]

PsbtIn(witness_utxo, witness_script, partial_sigs) ==
    [witness_script |-> witness_script,
     witness_utxo |-> witness_utxo,
     partial_sigs |-> partial_sigs,
     final_script_witness |-> None]

PreformedInputs ==
    {PsbtIn(None, None, NoSigs),
     PsbtIn(Some(get_txout(feebump_txo)), None, SignedBy({feebump_xpub})),
     PsbtIn(Some(get_txout(feebump_txo)), None, NoSigs),
     PsbtIn(Some(get_txout(vault_txo)), Some(vault_descriptor),
            SignedBy(Range(managers) \cup Range(non_managers))),
     PsbtIn(Some(get_txout(vault_txo)), None,
            SignedBy(Range(managers) \cup Range(non_managers))),
     PsbtIn(Some(TxOut(360, p2wsh(unparsable_script))), Some(unparsable_script), NoSigs),
     PsbtIn(Some(get_txout(emer_txo)), None, NoSigs)}

PreformedPsbts ==
    {[global |->
        [unsigned_tx |->
            [version |-> 2,
             lock_time |-> 0,
             input |-> [i \in 1..n |->
                [previous_output |-> OutPoint("funding_tx", i - 1),
                 sequence |-> U32_MAX]],
             output |-> <<get_txout(vault_txo)>>]],
      inputs |-> psbt_inputs,
      outputs |-> <<[witness_script |-> None]>>] :
        n \in 0..MaxPrevouts, psbt_inputs \in SeqsUpTo(PreformedInputs, MaxPrevouts)}

InitPreformed ==
    InitWith({VaultTransaction_new(psbt) : psbt \in PreformedPsbts}
             \cup {FeeBumpTransaction_new(psbt) : psbt \in PreformedPsbts})

SpecPreformed == InitPreformed /\ [][Finalize]_vars

SkeletonInputs == tx.psbt.global.unsigned_tx.input

(***************************************************************************)
(* C29: finalize on a record whose number of per-input records differs     *)
(* from the number of skeleton inputs returns the input-count-mismatch     *)
(* error before examining any input and writes no witness.                 *)
(***************************************************************************)
C29_InputCountMismatch ==
    [][(ret'.op = "finalize" /\ Len(PsbtInputs) # Len(SkeletonInputs)) =>
        /\ ret'.err = "NumberOfInputsMismatch"
        /\ ret'.idx = None
        /\ tx' = tx
    ]_vars

\* finalize refused a record of two per-input records and one skeleton
\* input whose first input is signed; the input has no witness.
C29_Witness ==
    /\ FinalizeErr
    /\ ret.err = "NumberOfInputsMismatch"
    /\ Len(PsbtInputs) = 2
    /\ Len(SkeletonInputs) = 1
    /\ PsbtInputs[1].partial_sigs # NoSigs
    /\ PsbtInputs[1].final_script_witness = None

\* The inputs a finalize call that returned (err, idx) has examined.
ExaminedBy(call) ==
    IF call.err = "Ok" THEN InputIndexes
    ELSE IF call.idx = None THEN {}
    ELSE 1..(call.idx[1] + 1)

(***************************************************************************)
(* C30: for each input finalize chooses its path only from the recorded    *)
(* previous output's script.  A missing recorded previous output is an     *)
(* error; a P2WPKH script takes the key-hash path and needs no witness     *)
(* script; a P2WSH script takes the policy path and is an error when the   *)
(* recorded witness script is absent or unparsable; any other script type  *)
(* is an unsupported-type error.  Each of these errors is a typed failure  *)
(* of the call.                                                            *)
(***************************************************************************)
C30_PathFollowsPrevScript ==
    [][(ret'.op = "finalize" /\ Len(PsbtInputs) = Len(SkeletonInputs)) =>
        /\ ret'.err # "Panic"
        /\ \A i \in ExaminedBy(ret') :
            LET psbtin == PsbtInputs[i]
                failed_here == ret'.err # "Ok" /\ ret'.idx = Some(i - 1)
                written == tx'.psbt.inputs[i].final_script_witness
            IN  IF psbtin.witness_utxo = None
                THEN failed_here /\ ret'.err = "MissingWitnessUtxo"
                ELSE IF is_v0_p2wpkh(psbtin.witness_utxo[1].script_pubkey)
                THEN IF failed_here
                     THEN ret'.err \in {"CouldNotFindPubkey", "NoSignatureForPubkey"}
                     ELSE written # None /\ Len(written[1]) = 2
                ELSE IF is_v0_p2wsh(psbtin.witness_utxo[1].script_pubkey)
                THEN IF psbtin.witness_script = None
                     THEN failed_here /\ ret'.err = "MissingWitnessScript"
                     ELSE IF miniscript_parse(psbtin.witness_script[1]) = None
                     THEN failed_here /\ ret'.err = "CouldNotParseWitnessScript"
                     ELSE IF failed_here
                     THEN ret'.err = "InputSatisfactionError"
                     ELSE /\ written # None
                          /\ written[1][Len(written[1])] = encode(psbtin.witness_script[1])
                ELSE failed_here /\ ret'.err = "InvalidPrevTxoutType"
    ]_vars

\* A key-hash input without witness script was finalized, and finalize
\* then failed on a script-hash input whose witness script is missing.
C30_Witness ==
    /\ FinalizeErr
    /\ ret.err = "MissingWitnessScript"
    /\ ret.idx = Some(1)
    /\ Len(PsbtInputs) = 2
    /\ is_v0_p2wpkh(ScriptPubkey(1))
    /\ PsbtInputs[1].witness_script = None
    /\ PsbtInputs[1].final_script_witness # None

(***************************************************************************)
(* C31: the satisfier's derived indexes are never stale.  At every         *)
(* finalize call the key-hash lookup returns a key exactly when that key   *)
(* currently has an entry in the input's signature map, so a signature     *)
(* added after an earlier (failed or successful) finalize is visible to    *)
(* the next finalize: a key-hash input fails with the unknown-key error    *)
(* exactly when its key has no entry at the time of the call.              *)
(***************************************************************************)
C31_IndexesNeverStale ==
    [][ret'.op = "finalize" =>
        \A i \in ExaminedBy(ret') :
            LET sigmap == PsbtInputs[i].partial_sigs
                input_satisfier == RevaultInputSatisfier_new(sigmap, SkeletonInputs[i].sequence)
            IN  /\ \A pk \in PublicKeys :
                    lookup_pkh_pk(input_satisfier, to_pubkeyhash(pk)) =
                        IF pk \in DOMAIN sigmap THEN Some(pk) ELSE None
                /\ is_v0_p2wpkh(ScriptPubkey(i)) =>
                    ((ret'.idx = Some(i - 1) /\ ret'.err = "CouldNotFindPubkey")
                        <=> KeyHashOwner(i) \notin DOMAIN sigmap)
    ]_vars

\* finalize succeeded on a fee-bumped record after an earlier finalize of
\* the same record had failed: the signatures added since then were seen.
C31_Witness ==
    /\ FinalizeOk
    /\ failed
    /\ Len(PsbtInputs) = 2
    /\ is_v0_p2wpkh(ScriptPubkey(2))
    /\ KeyHashOwner(2) \in DOMAIN PsbtInputs[2].partial_sigs

(***************************************************************************)
(* C32: finalize never changes any signature map (the collected partial    *)
(* signatures are kept, not consumed), and it is idempotent: calling       *)
(* finalize again right after a successful finalize succeeds and leaves    *)
(* every final witness identical.                                          *)
(***************************************************************************)
C32_FinalizeKeepsSignatures ==
    [][ret'.op = "finalize" =>
        /\ \A i \in InputIndexes :
            tx'.psbt.inputs[i].partial_sigs = PsbtInputs[i].partial_sigs
        /\ ret'.err = "Ok" =>
            /\ finalize(tx').err = "Ok"
            /\ \A i \in InputIndexes :
                finalize(tx').tx.psbt.inputs[i].final_script_witness
                    = tx'.psbt.inputs[i].final_script_witness
    ]_vars

\* A finalized record of two inputs that still holds the signatures its
\* witnesses were made of.
C32_Witness ==
    /\ FinalizeOk
    /\ Len(PsbtInputs) = 2
    /\ \A i \in InputIndexes :
        /\ PsbtInputs[i].partial_sigs # NoSigs
        /\ PsbtInputs[i].final_script_witness # None

(***************************************************************************)
(* C33: a successful add_signature(i, key, sig) changes only the entry for *)
(* key in input i's signature map.  The signature maps of all other        *)
(* inputs, the other entries of input i, every input's recorded previous   *)
(* output and witness script, and every final witness are left unchanged.  *)
(***************************************************************************)
C33_AddSignatureFrame ==
    [][(ret'.op = "add_signature" /\ ret'.err = "Ok") =>
        /\ tx'.variant = tx.variant
        /\ tx'.psbt.global = tx.psbt.global
        /\ tx'.psbt.outputs = tx.psbt.outputs
        /\ Len(tx'.psbt.inputs) = Len(PsbtInputs)
        /\ \A i \in InputIndexes :
            /\ tx'.psbt.inputs[i].witness_utxo = PsbtInputs[i].witness_utxo
            /\ tx'.psbt.inputs[i].witness_script = PsbtInputs[i].witness_script
            /\ tx'.psbt.inputs[i].final_script_witness = PsbtInputs[i].final_script_witness
        /\ \E i \in InputIndexes, key \in PublicKeys :
            /\ key \in DOMAIN tx'.psbt.inputs[i].partial_sigs
            /\ DOMAIN tx'.psbt.inputs[i].partial_sigs
                    = DOMAIN PsbtInputs[i].partial_sigs \cup {key}
            /\ \A other \in DOMAIN PsbtInputs[i].partial_sigs \ {key} :
                    tx'.psbt.inputs[i].partial_sigs[other]
                        = PsbtInputs[i].partial_sigs[other]
            /\ \A j \in InputIndexes \ {i} :
                    tx'.psbt.inputs[j].partial_sigs = PsbtInputs[j].partial_sigs
    ]_vars

\* A signature was added to a record of two inputs that holds a final
\* witness and signatures on both inputs.
C33_Witness ==
    /\ ret.op = "add_signature"
    /\ ret.err = "Ok"
    /\ Len(PsbtInputs) = 2
    /\ PsbtInputs[1].final_script_witness # None
    /\ Cardinality(DOMAIN PsbtInputs[1].partial_sigs) >= 2
    /\ PsbtInputs[2].partial_sigs # NoSigs

\* The add_signature calls that give a parsable signature to a key without
\* entry on an input of the record.
NewSignatureCalls ==
    {call \in SignatureCalls :
        /\ call[1] < Len(PsbtInputs)
        /\ Parsable(call[3])
        /\ call[2] \notin DOMAIN PsbtInputs[call[1] + 1].partial_sigs}

(***************************************************************************)
(* C34: adding signatures never breaks a finalizable record.  If finalize  *)
(* succeeds in some signature state, it also succeeds in the state         *)
(* obtained by add_signature of a parsable signature under a key that had  *)
(* no entry on that input.                                                 *)
(***************************************************************************)
C34_MoreSignaturesStillFinalize ==
    finalize(tx).err = "Ok" =>
        \A call \in NewSignatureCalls :
            \A after \in {AfterCall(tx, call)} : finalize(after).err = "Ok"

\* The cosigner's signature was added to a spend transaction that
\* finalized with those of the manager and the non-manager, and the record
\* still finalizes.
C34_Witness ==
    /\ ret.op = "add_signature"
    /\ ret.value = None
    /\ tx.variant = "SpendTransaction"
    /\ Sequence(1) = u32(CSV_VALUE - 1)
    /\ SignedKeys(1) = Range(managers) \cup Range(non_managers) \cup Range(cosigners)
    /\ PsbtInputs[1].final_script_witness # None
    /\ finalize(tx).err = "Ok"

(***************************************************************************)
(* C35: an input whose sequence is RBF_SEQUENCE (u32::MAX - 2, which has   *)
(* the relative-locktime disable bit 31 set) never passes the relative-    *)
(* timelock check, so the unvault input of a cancel or unvault-emergency   *)
(* transaction cannot be finalized through the timelocked manager +        *)
(* cosigner branch and requires the all-participants branch.               *)
(***************************************************************************)
C35_RbfSequenceFailsTimelock ==
    (/\ FinalizeReturned
     /\ tx.variant \in {"CancelTransaction", "UnvaultEmergencyTransaction"}
     /\ Sequence(1) = RBF_SEQUENCE) =>
        /\ ~check_older(RevaultInputSatisfier_new(PsbtInputs[1].partial_sigs, Sequence(1)),
                        RequiredCsv(1)).value
        /\ (PsbtInputs[1].final_script_witness # None /\ ret.idx # Some(0)) =>
                Participants \subseteq SignedKeys(1)

(***************************************************************************)
(* A fee-bumped cancel transaction that is given well-formed signatures,   *)
(* signatures whose DER body does not parse, and empty ones.               *)
(***************************************************************************)
MalformedRawSigs == { <<DER_SEQUENCE_TAG, 129>>, <<49, 1>>, << >> }

NextMalformed ==
    \/ AddAnySignature(MalformedRawSigs)
    \/ Finalize

SpecMalformed == InitKeyHash /\ [][NextMalformed]_vars

\* The keys of input i whose stored raw signature is empty or has no valid
\* DER body, and the per-input record without their entries.
MalformedKeys(i) ==
    {pk \in DOMAIN PsbtInputs[i].partial_sigs : ~Parsable(PsbtInputs[i].partial_sigs[pk])}

WithoutMalformed(i) ==
    [PsbtInputs[i] EXCEPT !.partial_sigs =
        [pk \in DOMAIN PsbtInputs[i].partial_sigs \ MalformedKeys(i) |->
            PsbtInputs[i].partial_sigs[pk]]]

(***************************************************************************)
(* C36: a stored raw signature that is empty or whose bytes before the     *)
(* last (flag) byte are not a valid DER signature is treated by signature  *)
(* lookup as absent, not as an error.  On the key-hash path the key is     *)
(* still found by its hash but finalize fails with the missing-signature   *)
(* error; on the policy path that key counts as unsigned.                  *)
(***************************************************************************)
C36_MalformedSignatureIsAbsent ==
    FinalizeReturned =>
        /\ ret.err # "Panic"
        /\ \A i \in ExaminedBy(ret) :
            LET input_satisfier ==
                    RevaultInputSatisfier_new(PsbtInputs[i].partial_sigs, Sequence(i))
            IN  /\ \A pk \in MalformedKeys(i) : lookup_sig(input_satisfier, pk) = None
                /\ (is_v0_p2wpkh(ScriptPubkey(i)) /\ KeyHashOwner(i) \in MalformedKeys(i)) =>
                    /\ lookup_pkh_pk(input_satisfier, to_pubkeyhash(KeyHashOwner(i)))
                            = Some(KeyHashOwner(i))
                    /\ ret.idx = Some(i - 1)
                    /\ ret.err = "NoSignatureForPubkey"
                /\ is_v0_p2wsh(ScriptPubkey(i)) =>
                    LET with == finalize_input(PsbtInputs[i], SkeletonInputs[i])
                        without == finalize_input(WithoutMalformed(i), SkeletonInputs[i])
                    IN  with = without

\* finalize got past the unvault input and failed on the fee-bump input,
\* whose key holds an empty signature.
C36_Witness ==
    /\ FinalizeErr
    /\ ret.err = "NoSignatureForPubkey"
    /\ ret.idx = Some(1)
    /\ Len(PsbtInputs) = 2
    /\ PsbtInputs[2].partial_sigs = [pk \in {feebump_xpub} |-> << >>]

(***************************************************************************)
(* The satisfier of the tagged-union API.  A RevaultSatisfier is made for  *)
(* one input of a transaction and the descriptor of the output it spends;  *)
(* it keeps the sequence of the input as it is then, collects signatures   *)
(* with insert_sig and fills the witness of the input with satisfy.        *)
(***************************************************************************)
\* RevaultInputSatisfier::new(sequence) of the tagged-union API.
InputSatisfier_new(sequence) ==
    [sequence |-> sequence,
     pkhashmap |-> [h \in {} |-> ""],
     sigmap |-> [pubkey \in {} |-> << >>]]

\* A BitcoinSig: the signature and its type, ALL or ALL|ANYONECANPAY.
BitcoinSig(sig, is_anyonecanpay) ==
    [sig |-> sig, hashty |-> IF is_anyonecanpay THEN 129 ELSE 1]

insert_sig(self, pubkey, sig, is_anyonecanpay) ==
    [satisfier |-> [self EXCEPT
                        !.pkhashmap = insert(self.pkhashmap, to_pubkeyhash(pubkey), pubkey),
                        !.sigmap = insert(self.sigmap, pubkey,
                                          BitcoinSig(sig, is_anyonecanpay))],
     value |-> IF pubkey \in DOMAIN self.sigmap THEN Some(self.sigmap[pubkey]) ELSE None]

\* self.sigmap.get(key).copied()
sigmap_lookup_sig(self, key) ==
    IF key \in DOMAIN self.sigmap THEN Some(self.sigmap[key]) ELSE None

sigmap_lookup_pkh_sig(self, keyhash) ==
    IF keyhash \in DOMAIN self.pkhashmap
    THEN LET key == self.pkhashmap[keyhash]
             sig == sigmap_lookup_sig(self, key)
         IN  IF sig = None THEN None ELSE Some([key |-> key, sig |-> sig[1]])
    ELSE None

\* Mutant: a sequence above the required value passes too.
check_after_at_least(self, csv) == u32_ge(self.sequence, csv)

\* self.sequence == csv
check_after(self, csv) == self.sequence = csv

RECURSIVE sigmap_multi_sigs(_, _)
sigmap_multi_sigs(satisfier, keys) ==
    IF keys = << >> THEN << >>
    ELSE LET sig == sigmap_lookup_sig(satisfier, Head(keys))
             rest == sigmap_multi_sigs(satisfier, Tail(keys))
         IN  IF sig = None THEN rest ELSE <<sig_push(sig[1])>> \o rest

\* Miniscript's satisfaction with this satisfier: the timelock of the
\* policy is asked to check_after.
RECURSIVE satisfy_after(_, _)
satisfy_after(ms, satisfier) ==
    CASE ms.op = "multi" ->
            LET sigs == sigmap_multi_sigs(satisfier, ms.keys)
            IN  IF Len(sigs) < ms.k THEN Impossible
                ELSE Satisfied(<< << >> >> \o SubSeq(sigs, 1, ms.k))
      [] ms.op = "pkh" ->
            LET found == sigmap_lookup_pkh_sig(satisfier, ms.hash)
            IN  IF found = None THEN Impossible
                ELSE Satisfied(<<sig_push(found[1].sig), to_bytes(found[1].key)>>)
      [] ms.op = "older" ->
            IF check_after(satisfier, ms.n) THEN Satisfied(<< >>) ELSE Impossible
      [] ms.op = "and" ->
            LET l == satisfy_after(ms.l, satisfier)
                r == satisfy_after(ms.r, satisfier)
            IN  IF l.st = "sat" /\ r.st = "sat" THEN Satisfied(r.stack \o l.stack)
                ELSE Impossible
      [] ms.op = "or" ->
            LET l == satisfy_after(ms.l, satisfier)
                r == satisfy_after(ms.r, satisfier)
                lw == l.stack \o << <<1>> >>
                rw == r.stack \o << << >> >>
            IN  IF l.st = "sat" /\ r.st = "sat"
                THEN (IF Len(rw) < Len(lw) THEN Satisfied(rw) ELSE Satisfied(lw))
                ELSE IF l.st = "sat" THEN Satisfied(lw)
                ELSE IF r.st = "sat" THEN Satisfied(rw)
                ELSE Impossible

\* RevaultSatisfier::new(transaction, input_index, descriptor)
RevaultSatisfier_new(transaction, input_index, descriptor) ==
    IF input_index >= Len(transaction.tx.input) THEN Err("InputSatisfaction")
    ELSE Ok([input_index |-> input_index,
             descriptor |-> descriptor,
             satisfier |-> InputSatisfier_new(
                                transaction.tx.input[input_index + 1].sequence)])

\* RevaultSatisfier::satisfy(): descriptor.satisfy(txin, satisfier); the
\* witness given to the input on success.
RevaultSatisfier_satisfy(self) ==
    LET witness == satisfy_after(miniscript_parse(self.descriptor)[1], self.satisfier)
    IN  IF witness.st = "sat"
        THEN Ok(Append(witness.stack, encode(self.descriptor)))
        ELSE Err("InputSatisfaction")

(***************************************************************************)
(* A spend transaction of the tagged-union API, built with a csv_value     *)
(* below, at or above the one of the unvault policy, for which a satisfier *)
(* is made, given signatures and asked to satisfy.  tx holds the           *)
(* transaction, the satisfier (if made) and the witness (if given).        *)
(***************************************************************************)
SpendCsvValues == {u32(CSV_VALUE - 1), u32(CSV_VALUE), u32(CSV_VALUE + 1)}

InitCheckAfter ==
    /\ tx \in {[transaction |->
                    new_spend(<<RevaultPrevout("UnvaultPrevout", OutPoint("unvault_tx", 0))>>,
                              <<RevaultTxOut("SpendTxOut", TxOut(1, empty_script))>>,
                              csv_value).value[1],
                revault_sat |-> None,
                witness |-> None] : csv_value \in SpendCsvValues}
    /\ ret = [op |-> "new", err |-> "Ok", idx |-> None, value |-> None]
    /\ failed = FALSE

SatisfierNew ==
    /\ tx.revault_sat = None
    /\ \E input_index \in 0..MaxInputIndex :
        LET made == RevaultSatisfier_new(tx.transaction, input_index,
                                         unvault_descriptor(u32(CSV_VALUE)))
        IN  /\ tx' = [tx EXCEPT !.revault_sat = made.value]
            /\ ret' = [op |-> "RevaultSatisfier::new", err |-> made.err,
                       idx |-> Some(input_index), value |-> None]
            /\ UNCHANGED failed

InsertSig ==
    /\ tx.revault_sat # None
    /\ \E pubkey \in PublicKeys, is_anyonecanpay \in BOOLEAN :
        LET done == insert_sig(tx.revault_sat[1].satisfier, pubkey,
                               <<DER_SEQUENCE_TAG>>, is_anyonecanpay)
        IN  /\ tx' = [tx EXCEPT !.revault_sat[1].satisfier = done.satisfier]
            /\ ret' = [op |-> "insert_sig", err |-> "Ok", idx |-> None,
                       value |-> done.value]
            /\ UNCHANGED failed

Satisfy ==
    /\ tx.revault_sat # None
    /\ LET done == RevaultSatisfier_satisfy(tx.revault_sat[1])
       IN  /\ tx' = [tx EXCEPT !.witness = IF done.err = "Ok" THEN done.value ELSE @]
           /\ ret' = [op |-> "satisfy", err |-> done.err, idx |-> None, value |-> None]
           /\ failed' = (failed \/ done.err # "Ok")

NextCheckAfter ==
    \/ SatisfierNew
    \/ InsertSig
    \/ Satisfy

SpecCheckAfter == InitCheckAfter /\ [][NextCheckAfter]_vars

\* The keys that gave a signature to the satisfier.
InsertedKeys == DOMAIN tx.revault_sat[1].satisfier.sigmap

(***************************************************************************)
(* C37: in the tagged-union generation the satisfier's timelock check      *)
(* (check_after) accepts only exact equality between the input's           *)
(* sequence, captured when the satisfier is created, and the required      *)
(* value.  A spend built with a csv_value above the policy's requirement   *)
(* fails satisfaction just as one built below it: without the signatures   *)
(* of all the non-managers, satisfy succeeds only when the managers and    *)
(* the cosigners signed and the sequence equals the required value.        *)
(***************************************************************************)
C37_CheckAfterIsExact ==
    ret.op = "satisfy" =>
        LET sat == tx.revault_sat[1]
            sequence == tx.transaction.tx.input[sat.input_index + 1].sequence
        IN  /\ sat.satisfier.sequence = sequence
            /\ \A csv \in SpendCsvValues :
                check_after(sat.satisfier, csv) = (sequence = csv)
            /\ ~(Range(non_managers) \subseteq InsertedKeys) =>
                (ret.err = "Ok" <=>
                    /\ Range(managers) \cup Range(cosigners) \subseteq InsertedKeys
                    /\ sequence = sat.descriptor.csv)

\* satisfy failed on a spend built with a csv_value above the required
\* one and signed by the managers and the cosigners.
C37_Witness ==
    /\ ret.op = "satisfy"
    /\ ret.err = "InputSatisfaction"
    /\ tx.transaction.tx.input[1].sequence = u32(CSV_VALUE + 1)
    /\ InsertedKeys = Range(managers) \cup Range(cosigners)

(***************************************************************************)
(* Two records held by a caller, with add_signature and finalize called on *)
(* either of them in any interleaving.  Each call borrows its record       *)
(* exclusively (&mut self), so it is one step.  tx holds the two records,  *)
(* ret the last result of each.                                            *)
(***************************************************************************)
\* A call: finalize, or add_signature with its arguments.
FinalizeCall == [op |-> "finalize", input_index |-> 0, pubkey |-> "", rawsig |-> << >>]
AddSignatureCall(input_index, pubkey, rawsig) ==
    [op |-> "add_signature", input_index |-> input_index, pubkey |-> pubkey,
     rawsig |-> rawsig]

\* The record after the call made on it alone, and what the call returns.
Alone(record, call) ==
    IF call.op = "finalize"
    THEN LET done == finalize(record)
         IN  [tx |-> done.tx,
              result |-> [op |-> "finalize", err |-> done.err, idx |-> done.idx,
                          value |-> None]]
    ELSE LET done == add_signature(record, call.input_index, call.pubkey, call.rawsig)
         IN  [tx |-> done.tx,
              result |-> [op |-> "add_signature", err |-> done.err, idx |-> None,
                          value |-> done.value]]

\* Mutant: the signatures are kept in one store shared by the records.
CallOn_shared_signatures(records, r, after) ==
    [i \in 1..Len(records) |->
        IF i = r
        THEN after
        ELSE [records[i] EXCEPT !.psbt.inputs[1].partial_sigs =
                                    after.psbt.inputs[1].partial_sigs]]

\* The caller's records once a call made on record r has left it as
\* `after`: self is that record, and the call holds no other.
CallOn(records, r, after) ==
    [records EXCEPT ![r] = after]

InitTwoRecords ==
    /\ tx = <<UnvaultTransaction_new(vault_txin(U32_MAX), unvault_txo, cpfp_txo, 0),
              SpendTransaction_new(<<unvault_txin(u32(CSV_VALUE))>>, <<spend_txo>>, 0)>>
    /\ ret = [r \in 1..2 |-> [op |-> "new", err |-> "Ok", idx |-> None, value |-> None]]
    /\ failed = FALSE

AddSignatureOnRecord ==
    \E r \in 1..2, input_index \in 0..MaxInputIndex, pubkey \in PublicKeys :
        LET done == add_signature(tx[r], input_index, pubkey, <<DER_SEQUENCE_TAG, 129>>)
        IN  /\ SigCount(done.tx) <= MaxSigs
            /\ tx' = CallOn(tx, r, done.tx)
            /\ ret' = [ret EXCEPT ![r] = [op |-> "add_signature", err |-> done.err,
                                          idx |-> None, value |-> done.value]]
            /\ UNCHANGED failed

FinalizeOnRecord ==
    \E r \in 1..2 :
        LET done == finalize(tx[r])
        IN  /\ tx' = CallOn(tx, r, done.tx)
            /\ ret' = [ret EXCEPT ![r] = [op |-> "finalize", err |-> done.err,
                                          idx |-> done.idx, value |-> None]]
            /\ UNCHANGED failed

NextTwoRecords ==
    \/ AddSignatureOnRecord
    \/ FinalizeOnRecord

SpecTwoRecords == InitTwoRecords /\ [][NextTwoRecords]_vars

RecordCalls ==
    {FinalizeCall}
    \cup {AddSignatureCall(input_index, pubkey, <<DER_SEQUENCE_TAG, 129>>) :
            input_index \in 0..MaxInputIndex, pubkey \in PublicKeys}

====
